---- MODULE Spec2Model ----
(***************************************************************************)
(* Model of renatorenos/estoque_bovino: the chronological replay of       *)
(* intakes ("entradas") and sales ("vendas") over per-product ledgers.     *)
(*                                                                         *)
(* The repository holds three variants of the same controller:             *)
(*   "permissiva"  src/sistema_estoque.py        (sale always applied)     *)
(*   "estrita"     src/backup/sistema_estoque copy.py (sale blocked)       *)
(*   "diaria"      src/relacao_diaria.py, lines 93.. (sale blocked, with   *)
(*                 per-day shortfall statistics)                           *)
(* Quantities are whole numbers here, on which Python's float sums,        *)
(* differences and yields are exact; the shortfall percentage of           *)
(* sistema_estoque.py, a quotient that is not exact, is computed in        *)
(* binary floating point as the code computes it, and so are the balances  *)
(* under SpecOrdem, whose lots have shares that are not whole numbers.     *)
(* All dates are parsed with '%d/%m/%y', so a date is a day number.        *)
(***************************************************************************)
EXTENDS Integers, Sequences, FiniteSets, TLC

VARIABLES
    variante,                \* which of the three scripts runs
    arq_entradas,            \* rows of entradas*.csv: <<DATA, QUANTIDADE>>
    arq_vendas,              \* rows of vendas*.csv: <<DATA, SEQPRODUTO, QUANTIDADE>>
    pc,                      \* position of the script
    produtos,                \* self.produtos: codigo -> Produto
    entrada_total,           \* self.entrada_total
    entradas_por_data,       \* self.entradas_por_data (0: key absent)
    movimentacoes_ordenadas, \* self.movimentacoes_ordenadas
    pos,                     \* index of the next event of the replay loop
    tem_alertas_estoque,     \* self.tem_alertas_estoque
    alertas,                 \* the "ALERTA" blocks printed by the replay loop
    relatorio,               \* what gerar_relatorio derives per product
    ajustes_necessarios,     \* calcular_percentuais_ideais: codigo -> ajuste
    percentuais_ideais,      \* calcular_percentuais_ideais: the returned dict
    in_sorted,               \* FIFO script: intake lots in DATETIME order
    out_sorted,              \* FIFO script: sale rows in DATETIME order
    alloc,                   \* FIFO script: the allocation entries
    entry_idx,               \* FIFO script: cursor into in_sorted, from 0
    remain,                  \* FIFO script: what is left of the current lot
    need,                    \* FIFO script: what the current sale still needs
    out_pos,                 \* FIFO script: sale rows the for loop has taken
    summary,                 \* FIFO script: the summary frame, one row per group
    pcf                      \* FIFO script: position

controle == <<variante, arq_entradas, arq_vendas, pc, produtos, entrada_total,
              entradas_por_data, movimentacoes_ordenadas, pos,
              tem_alertas_estoque, alertas, relatorio,
              ajustes_necessarios, percentuais_ideais>>

fifo == <<in_sorted, out_sorted, alloc, entry_idx, remain, need, out_pos,
          summary, pcf>>

vars == <<controle, fifo>>

-----------------------------------------------------------------------------
(* Bounds and input sets *)

MaxEntradas == 2
MaxVendas == 2
MaxVendasDiaria == 3
MaxMovimentacoes == 3
MaxLotes == 2
MaxVendasRendimento == 1
MaxSaidas == 2

\* the calendar: the days a row may be dated
Dias == {1, 2, 3}
QtdEntrada == {100, 200}
QtdVenda == {40, 70}
\* percentuais*.csv: product 3 has yield 0
Percentuais == (1 :> 60) @@ (2 :> 40) @@ (3 :> 0)
Codigos == DOMAIN Percentuais
\* 9 is a product code that is not configured
NaoConfigurado == {9}
Variantes == {"permissiva", "estrita", "diaria"}

\* rows of the input files explored under Spec
LinhasEntrada == {<<1, 100>>, <<2, 100>>, <<2, 200>>}
LinhasVenda == ({1, 2} \X {1, 2} \X QtdVenda) \cup ({1} \X NaoConfigurado \X {40})

\* rows explored under SpecDiaria: three days, repeated sales of one product
LinhasEntradaDiaria == Dias \X QtdEntrada
LinhasVendaDiaria == Dias \X {1} \X {70}

\* ledgers handed to calcular_percentuais_ideais under SpecIdeais: the
\* movements of one product as (tipo, quantidade), and the configurations
LancamentosIdeais == {<<"E", 6>>, <<"S", 3>>, <<"S", 4>>}
PercentuaisIdeais == {Percentuais, (1 :> 33) @@ (2 :> 33) @@ (3 :> 33)}

\* rows of the allocation script: lots <<DATA, QUANTIDADE>> and sales
\* <<DATA, SEQPRODUTO, QUANTIDADE>>, all quantities positive
LotesFIFO == {1, 3} \X {30, 50}
SaidasFIFO == {2, 4} \X {1, 2} \X {20, 90}

None == 0

SeqsAte(S, n) == UNION {[1..k -> S] : k \in 0..n}

-----------------------------------------------------------------------------
(* Ledger *)

Movimentacao(data, tipo, quantidade, saldo_apos) ==
    [data |-> data, tipo |-> tipo, quantidade |-> quantidade,
     saldo_apos |-> saldo_apos]

Produto(codigo, percentual) ==
    [codigo |-> codigo,
     percentual |-> percentual,
     saldo_atual |-> 0,
     movimentacoes |-> <<>>,
     maior_falta_estoque |-> 0,
     data_maior_falta_estoque |-> None,
     tentativa_venda_negativa |-> FALSE,
     total_falta_estoque |-> 0,
     vendas_negativas_por_dia |-> [d \in Dias |-> 0],
     dia_mais_vendas_negativas |-> None,
     qtd_vendas_negativas_no_dia |-> 0,
     falta_no_dia_mais_vendas_negativas |-> 0]

\* faulty variant: the movement carries the balance before the intake
registrar_entrada_saldo_anterior(p, data, quantidade) ==
    LET saldo == p.saldo_atual + quantidade
    IN [p EXCEPT !.saldo_atual = saldo,
                 !.movimentacoes =
                     Append(@, Movimentacao(data, "E", quantidade, p.saldo_atual))]

\* faulty variant: the movement is put at the head of the history
registrar_entrada_no_inicio(p, data, quantidade) ==
    LET saldo == p.saldo_atual + quantidade
    IN [p EXCEPT !.saldo_atual = saldo,
                 !.movimentacoes =
                     <<Movimentacao(data, "E", quantidade, saldo)>> \o @]

registrar_entrada(p, data, quantidade) ==
    LET saldo == p.saldo_atual + quantidade
    IN [p EXCEPT !.saldo_atual = saldo,
                 !.movimentacoes =
                     Append(@, Movimentacao(data, "E", quantidade, saldo))]

RECURSIVE SomaTipo(_, _)
SomaTipo(movs, tipo) ==
    IF movs = <<>> THEN 0
    ELSE (IF Head(movs).tipo = tipo THEN Head(movs).quantidade ELSE 0)
         + SomaTipo(Tail(movs), tipo)

total_entradas(p) == SomaTipo(p.movimentacoes, "E")

total_saidas(p) == SomaTipo(p.movimentacoes, "S")

-----------------------------------------------------------------------------
(* Initial state: the controller object before the loaders run *)

\* a product the shortfall section of the report did not print
NaoImpresso == [impresso |-> FALSE, entrada |-> 0, percentual |-> 0]

\* ControladorEstoque.__init__, before it calls the loaders
Controlador ==
    /\ pc = "carregar"
    /\ produtos = [c \in Codigos |-> Produto(c, Percentuais[c])]
    /\ entrada_total = 0
    /\ entradas_por_data = [d \in Dias |-> 0]
    /\ movimentacoes_ordenadas = <<>>
    /\ pos = 1
    /\ tem_alertas_estoque = FALSE
    /\ alertas = <<>>
    /\ relatorio = [c \in Codigos |-> NaoImpresso]
    /\ ajustes_necessarios = <<>>
    /\ percentuais_ideais = <<>>

\* the allocation script of relacao_diaria.py, lines 1-92, left aside
AlocacaoParada ==
    /\ in_sorted = <<>>
    /\ out_sorted = <<>>
    /\ alloc = <<>>
    /\ entry_idx = 0
    /\ remain = 0
    /\ need = 0
    /\ out_pos = 0
    /\ summary = <<>>
    /\ pcf = "parado"

Init ==
    /\ variante \in Variantes
    /\ arq_entradas \in SeqsAte(LinhasEntrada, MaxEntradas)
    /\ arq_vendas \in SeqsAte(LinhasVenda, MaxVendas)
    /\ Controlador
    /\ AlocacaoParada

\* the per-day statistics of relacao_diaria.py on longer sale files
InitDiaria ==
    /\ variante = "diaria"
    /\ arq_entradas \in SeqsAte(LinhasEntradaDiaria, MaxEntradas)
    /\ arq_vendas \in SeqsAte(LinhasVendaDiaria, MaxVendasDiaria)
    /\ Controlador
    /\ AlocacaoParada

-----------------------------------------------------------------------------
(* Movement merger: carregar_movimentacoes *)

\* the event tuples (tipo, data, quantidade, codigo) built from the rows
EventoEntrada(linha) == <<"E", linha[1], linha[2], None>>

EventoVenda(linha) == <<"S", linha[1], linha[3], linha[2]>>

RECURSIVE LerEntradas(_)
LerEntradas(linhas) ==
    IF linhas = <<>> THEN <<>>
    ELSE <<EventoEntrada(Head(linhas))>> \o LerEntradas(Tail(linhas))

\* faulty variant: every sale row is kept
RECURSIVE LerVendasTodas(_, _)
LerVendasTodas(linhas, configurados) ==
    IF linhas = <<>> THEN <<>>
    ELSE <<EventoVenda(Head(linhas))>> \o LerVendasTodas(Tail(linhas), configurados)

\* only rows whose SEQPRODUTO is a configured product are kept
RECURSIVE LerVendas(_, _)
LerVendas(linhas, configurados) ==
    IF linhas = <<>> THEN <<>>
    ELSE (IF Head(linhas)[2] \in configurados
          THEN <<EventoVenda(Head(linhas))>> ELSE <<>>)
         \o LerVendas(Tail(linhas), configurados)

RECURSIVE SomaEntradas(_)
SomaEntradas(linhas) ==
    IF linhas = <<>> THEN 0 ELSE Head(linhas)[2] + SomaEntradas(Tail(linhas))

\* faulty variant: every variant adds the quantity to the day's entry
RECURSIVE EntradasPorDataSoma(_, _, _)
EntradasPorDataSoma(v, linhas, dic) ==
    IF linhas = <<>> THEN dic
    ELSE LET d == Head(linhas)[1]
             q == Head(linhas)[2]
             novo == IF v \in {"permissiva", "diaria"}
                     THEN [dic EXCEPT ![d] = @ + q] ELSE dic
         IN EntradasPorDataSoma(v, Tail(linhas), novo)

\* entradas_por_data after the intake rows are read.  sistema_estoque.py adds
\* the quantity to the day's entry, relacao_diaria.py overwrites the entry,
\* the backup copy keeps no such dictionary.
RECURSIVE EntradasPorData(_, _, _)
EntradasPorData(v, linhas, dic) ==
    IF linhas = <<>> THEN dic
    ELSE LET d == Head(linhas)[1]
             q == Head(linhas)[2]
             novo == CASE v = "permissiva" -> [dic EXCEPT ![d] = @ + q]
                       [] v = "diaria" -> [dic EXCEPT ![d] = q]
                       [] OTHER -> dic
         IN EntradasPorData(v, Tail(linhas), novo)

\* faulty variant: an event is placed before the events of the same date
InserirAntesDosIguais(s, e) ==
    LET k == Cardinality({i \in 1..Len(s) : s[i][2] < e[2]})
    IN SubSeq(s, 1, k) \o <<e>> \o SubSeq(s, k + 1, Len(s))

\* Python's sorted(..., key=lambda x: x[1]): a stable sort on the date
InserirEstavel(s, e) ==
    LET k == Cardinality({i \in 1..Len(s) : s[i][2] <= e[2]})
    IN SubSeq(s, 1, k) \o <<e>> \o SubSeq(s, k + 1, Len(s))

\* faulty variant: the merged list is left in file order
sorted_sem_ordenar(s) == s

RECURSIVE sorted(_)
sorted(s) ==
    IF s = <<>> THEN <<>>
    ELSE InserirEstavel(sorted(SubSeq(s, 1, Len(s) - 1)), s[Len(s)])

carregar_movimentacoes ==
    /\ pc = "carregar"
    /\ LET entradas == LerEntradas(arq_entradas)
           vendas == LerVendas(arq_vendas, DOMAIN produtos)
       IN /\ entrada_total' = entrada_total + SomaEntradas(arq_entradas)
          /\ entradas_por_data' =
                 EntradasPorData(variante, arq_entradas, entradas_por_data)
          /\ movimentacoes_ordenadas' = sorted(entradas \o vendas)
    /\ pc' = "processar"
    /\ UNCHANGED <<fifo, ajustes_necessarios, percentuais_ideais,
                   variante, arq_entradas, arq_vendas, produtos, pos,
                   tem_alertas_estoque, alertas, relatorio>>

-----------------------------------------------------------------------------
(* Allocation engine: one iteration of the loop of processar_movimentacoes *)

NoLaco == pc = "processar" /\ pos <= Len(movimentacoes_ordenadas)

Evento == movimentacoes_ordenadas[pos]

\* faulty variant: the percentage is applied as a factor
quantidade_derivada_fator(quantidade, percentual) == quantidade * percentual

\* the intake quantities explored are multiples of 100, so the quotient is exact
quantidade_derivada(quantidade, percentual) == (quantidade * percentual) \div 100

\* faulty variant: a product with yield 0 receives no movement
ProcessarEntradaSemZero ==
    /\ NoLaco
    /\ Evento[1] = "E"
    /\ produtos' = [c \in DOMAIN produtos |->
                       IF produtos[c].percentual = 0 THEN produtos[c]
                       ELSE registrar_entrada(produtos[c], Evento[2],
                                quantidade_derivada(Evento[3], produtos[c].percentual))]
    /\ pos' = pos + 1
    /\ UNCHANGED <<fifo, ajustes_necessarios, percentuais_ideais,
                   variante, arq_entradas, arq_vendas, pc, entrada_total,
                   entradas_por_data, movimentacoes_ordenadas,
                   tem_alertas_estoque, alertas, relatorio>>

\* faulty variant: every product is credited with the whole intake
DistribuirEntradaInteira(prods, data, quantidade) ==
    [c \in DOMAIN prods |-> registrar_entrada(prods[c], data, quantidade)]

\* the body of the loop for an 'E' event: every product is credited
DistribuirEntrada(prods, data, quantidade) ==
    [c \in DOMAIN prods |->
        registrar_entrada(prods[c], data,
            quantidade_derivada(quantidade, prods[c].percentual))]

ProcessarEntrada ==
    /\ NoLaco
    /\ Evento[1] = "E"
    /\ produtos' = DistribuirEntrada(produtos, Evento[2], Evento[3])
    /\ pos' = pos + 1
    /\ UNCHANGED <<fifo, ajustes_necessarios, percentuais_ideais,
                   variante, arq_entradas, arq_vendas, pc, entrada_total,
                   entradas_por_data, movimentacoes_ordenadas,
                   tem_alertas_estoque, alertas, relatorio>>

\* the four values printed in an ALERTA block
Alerta(data, p, quantidade) ==
    [data |-> data, codigo |-> p.codigo, quantidade |-> quantidade,
     saldo |-> p.saldo_atual]

\* faulty variant: a sale equal to the balance is reported as insufficient
registrar_saida_permissiva_igual(p, data, quantidade) ==
    LET flag == ~(quantidade >= p.saldo_atual)
        saldo == p.saldo_atual - quantidade
    IN [produto |-> [p EXCEPT !.saldo_atual = saldo,
                              !.movimentacoes =
                                  Append(@, Movimentacao(data, "S", quantidade, saldo))],
        retorno |-> flag]

\* faulty variant: the sale reads the controller's alert flag, which is not
\* part of the ledger, and is dropped once an alert was raised
registrar_saida_permissiva_alerta(p, data, quantidade) ==
    LET flag == ~(quantidade > p.saldo_atual)
        saldo == p.saldo_atual - quantidade
    IN IF tem_alertas_estoque THEN [produto |-> p, retorno |-> TRUE]
       ELSE [produto |-> [p EXCEPT !.saldo_atual = saldo,
                                   !.movimentacoes =
                                       Append(@, Movimentacao(data, "S", quantidade, saldo))],
             retorno |-> flag]

(* sistema_estoque.py: the sale is always applied *)
registrar_saida_permissiva(p, data, quantidade) ==
    LET flag == ~(quantidade > p.saldo_atual)
        saldo == p.saldo_atual - quantidade
    IN [produto |-> [p EXCEPT !.saldo_atual = saldo,
                              !.movimentacoes =
                                  Append(@, Movimentacao(data, "S", quantidade, saldo))],
        retorno |-> flag]

\* faulty variant: a sale that equals the largest shortfall takes its date
VendaPermissivaUltima(prods, data, quantidade, codigo) ==
    LET r == registrar_saida_permissiva(prods[codigo], data, quantidade)
        p == r.produto
    IN [produtos |->
            IF ~r.retorno
            THEN [prods EXCEPT ![codigo] =
                     IF p.maior_falta_estoque >= p.saldo_atual
                     THEN [p EXCEPT !.maior_falta_estoque = p.saldo_atual,
                                    !.data_maior_falta_estoque = data]
                     ELSE p]
            ELSE [prods EXCEPT ![codigo] = p],
        insuficiente |-> ~r.retorno,
        alerta |-> Alerta(data, p, quantidade)]

\* the body of the loop for a sale event: the ledgers after it, whether the
\* sale was insufficient, and the ALERTA block printed in that case
VendaPermissiva(prods, data, quantidade, codigo) ==
    LET r == registrar_saida_permissiva(prods[codigo], data, quantidade)
        p == r.produto
    IN [produtos |->
            IF ~r.retorno
            THEN [prods EXCEPT ![codigo] =
                     IF p.maior_falta_estoque > p.saldo_atual
                     THEN [p EXCEPT !.maior_falta_estoque = p.saldo_atual,
                                    !.data_maior_falta_estoque = data]
                     ELSE p]
            ELSE [prods EXCEPT ![codigo] = p],
        insuficiente |-> ~r.retorno,
        alerta |-> Alerta(data, p, quantidade)]

ProcessarVendaPermissiva ==
    /\ NoLaco
    /\ variante = "permissiva"
    /\ Evento[1] = "S"
    /\ LET r == VendaPermissiva(produtos, Evento[2], Evento[3], Evento[4])
       IN /\ produtos' = r.produtos
          /\ IF r.insuficiente
             THEN /\ tem_alertas_estoque' = TRUE
                  /\ alertas' = Append(alertas, r.alerta)
             ELSE UNCHANGED <<tem_alertas_estoque, alertas>>
    /\ pos' = pos + 1
    /\ UNCHANGED <<fifo, ajustes_necessarios, percentuais_ideais,
                   variante, arq_entradas, arq_vendas, pc, entrada_total,
                   entradas_por_data, movimentacoes_ordenadas, relatorio>>

\* faulty variant: a blocked sale is still written to the history
registrar_saida_estrita_registra(p, data, quantidade) ==
    LET saldo == p.saldo_atual - quantidade
    IN IF p.saldo_atual >= quantidade
       THEN [produto |-> [p EXCEPT !.saldo_atual = saldo,
                                   !.movimentacoes =
                                       Append(@, Movimentacao(data, "S", quantidade, saldo))],
             retorno |-> TRUE]
       ELSE [produto |-> [p EXCEPT !.movimentacoes =
                                       Append(@, Movimentacao(data, "S", quantidade,
                                                              p.saldo_atual))],
             retorno |-> FALSE]

\* faulty variant: a sale equal to the balance is blocked
registrar_saida_estrita_maior(p, data, quantidade) ==
    IF p.saldo_atual > quantidade
    THEN LET saldo == p.saldo_atual - quantidade
         IN [produto |-> [p EXCEPT !.saldo_atual = saldo,
                                   !.movimentacoes =
                                       Append(@, Movimentacao(data, "S", quantidade, saldo))],
             retorno |-> TRUE]
    ELSE [produto |-> p, retorno |-> FALSE]

(* backup/sistema_estoque copy.py: an insufficient sale is blocked *)
registrar_saida_estrita(p, data, quantidade) ==
    IF p.saldo_atual >= quantidade
    THEN LET saldo == p.saldo_atual - quantidade
         IN [produto |-> [p EXCEPT !.saldo_atual = saldo,
                                   !.movimentacoes =
                                       Append(@, Movimentacao(data, "S", quantidade, saldo))],
             retorno |-> TRUE]
    ELSE [produto |-> p, retorno |-> FALSE]

\* faulty variant: the caller subtracts the quantity of a blocked sale
VendaEstritaAplicada(prods, data, quantidade, codigo) ==
    LET r == registrar_saida_estrita(prods[codigo], data, quantidade)
        p == r.produto
    IN [produtos |-> [prods EXCEPT ![codigo] =
                         IF r.retorno THEN p
                         ELSE [p EXCEPT !.saldo_atual = @ - quantidade]],
        insuficiente |-> ~r.retorno,
        alerta |-> Alerta(data, p, quantidade)]

VendaEstrita(prods, data, quantidade, codigo) ==
    LET r == registrar_saida_estrita(prods[codigo], data, quantidade)
        p == r.produto
    IN [produtos |-> [prods EXCEPT ![codigo] = p],
        insuficiente |-> ~r.retorno,
        alerta |-> Alerta(data, p, quantidade)]

ProcessarVendaEstrita ==
    /\ NoLaco
    /\ variante = "estrita"
    /\ Evento[1] = "S"
    /\ LET r == VendaEstrita(produtos, Evento[2], Evento[3], Evento[4])
       IN /\ produtos' = r.produtos
          /\ IF r.insuficiente
             THEN /\ tem_alertas_estoque' = TRUE
                  /\ alertas' = Append(alertas, r.alerta)
             ELSE UNCHANGED <<tem_alertas_estoque, alertas>>
    /\ pos' = pos + 1
    /\ UNCHANGED <<fifo, ajustes_necessarios, percentuais_ideais,
                   variante, arq_entradas, arq_vendas, pc, entrada_total,
                   entradas_por_data, movimentacoes_ordenadas, relatorio>>

\* faulty variant: a sale equal to the balance is blocked and counted as a shortfall
registrar_saida_diaria_maior(p, data, quantidade) ==
    IF p.saldo_atual > quantidade
    THEN LET saldo == p.saldo_atual - quantidade
         IN [produto |-> [p EXCEPT !.saldo_atual = saldo,
                                   !.movimentacoes =
                                       Append(@, Movimentacao(data, "S", quantidade, saldo))],
             retorno |-> TRUE]
    ELSE LET falta == quantidade - p.saldo_atual
             data_sem_hora == data
             qtd_atual == p.vendas_negativas_por_dia[data_sem_hora] + 1
             p1 == [p EXCEPT !.tentativa_venda_negativa = TRUE,
                             !.total_falta_estoque = @ + falta,
                             !.vendas_negativas_por_dia[data_sem_hora] = qtd_atual]
             p2 == IF \/ p1.dia_mais_vendas_negativas = None
                      \/ qtd_atual > p1.qtd_vendas_negativas_no_dia
                   THEN [p1 EXCEPT !.dia_mais_vendas_negativas = data_sem_hora,
                                   !.qtd_vendas_negativas_no_dia = qtd_atual,
                                   !.falta_no_dia_mais_vendas_negativas = falta]
                   ELSE IF p1.dia_mais_vendas_negativas = data_sem_hora
                   THEN [p1 EXCEPT !.falta_no_dia_mais_vendas_negativas = @ + falta]
                   ELSE p1
         IN [produto |-> p2, retorno |-> FALSE]

\* faulty variant: a day that ties the largest count becomes the tracked day
registrar_saida_diaria_empate(p, data, quantidade) ==
    IF p.saldo_atual >= quantidade
    THEN LET saldo == p.saldo_atual - quantidade
         IN [produto |-> [p EXCEPT !.saldo_atual = saldo,
                                   !.movimentacoes =
                                       Append(@, Movimentacao(data, "S", quantidade, saldo))],
             retorno |-> TRUE]
    ELSE LET falta == quantidade - p.saldo_atual
             data_sem_hora == data
             qtd_atual == p.vendas_negativas_por_dia[data_sem_hora] + 1
             p1 == [p EXCEPT !.tentativa_venda_negativa = TRUE,
                             !.total_falta_estoque = @ + falta,
                             !.vendas_negativas_por_dia[data_sem_hora] = qtd_atual]
             p2 == IF \/ p1.dia_mais_vendas_negativas = None
                      \/ qtd_atual >= p1.qtd_vendas_negativas_no_dia
                   THEN [p1 EXCEPT !.dia_mais_vendas_negativas = data_sem_hora,
                                   !.qtd_vendas_negativas_no_dia = qtd_atual,
                                   !.falta_no_dia_mais_vendas_negativas = falta]
                   ELSE IF p1.dia_mais_vendas_negativas = data_sem_hora
                   THEN [p1 EXCEPT !.falta_no_dia_mais_vendas_negativas = @ + falta]
                   ELSE p1
         IN [produto |-> p2, retorno |-> FALSE]

(* relacao_diaria.py: an insufficient sale is blocked and counted per day *)
registrar_saida_diaria(p, data, quantidade) ==
    IF p.saldo_atual >= quantidade
    THEN LET saldo == p.saldo_atual - quantidade
         IN [produto |-> [p EXCEPT !.saldo_atual = saldo,
                                   !.movimentacoes =
                                       Append(@, Movimentacao(data, "S", quantidade, saldo))],
             retorno |-> TRUE]
    ELSE LET falta == quantidade - p.saldo_atual
             data_sem_hora == data
             qtd_atual == p.vendas_negativas_por_dia[data_sem_hora] + 1
             p1 == [p EXCEPT !.tentativa_venda_negativa = TRUE,
                             !.total_falta_estoque = @ + falta,
                             !.vendas_negativas_por_dia[data_sem_hora] = qtd_atual]
             p2 == IF \/ p1.dia_mais_vendas_negativas = None
                      \/ qtd_atual > p1.qtd_vendas_negativas_no_dia
                   THEN [p1 EXCEPT !.dia_mais_vendas_negativas = data_sem_hora,
                                   !.qtd_vendas_negativas_no_dia = qtd_atual,
                                   !.falta_no_dia_mais_vendas_negativas = falta]
                   ELSE IF p1.dia_mais_vendas_negativas = data_sem_hora
                   THEN [p1 EXCEPT !.falta_no_dia_mais_vendas_negativas = @ + falta]
                   ELSE p1
         IN [produto |-> p2, retorno |-> FALSE]

\* faulty variant: the shortage is added to the total of every product
VendaDiariaEmTodos(prods, data, quantidade, codigo) ==
    LET r == registrar_saida_diaria(prods[codigo], data, quantidade)
        p == r.produto
        falta == quantidade - p.saldo_atual
    IN [produtos |->
            IF ~r.retorno
            THEN [c \in DOMAIN prods |->
                     [(IF c = codigo THEN p ELSE prods[c])
                         EXCEPT !.total_falta_estoque = @ + falta]]
            ELSE [prods EXCEPT ![codigo] = p],
        insuficiente |-> ~r.retorno,
        alerta |-> Alerta(data, p, quantidade)]

VendaDiaria(prods, data, quantidade, codigo) ==
    LET r == registrar_saida_diaria(prods[codigo], data, quantidade)
        p == r.produto
        falta == quantidade - p.saldo_atual
    IN [produtos |->
            IF ~r.retorno
            THEN [prods EXCEPT ![codigo] =
                     [p EXCEPT !.total_falta_estoque = @ + falta]]
            ELSE [prods EXCEPT ![codigo] = p],
        insuficiente |-> ~r.retorno,
        alerta |-> Alerta(data, p, quantidade)]

ProcessarVendaDiaria ==
    /\ NoLaco
    /\ variante = "diaria"
    /\ Evento[1] = "S"
    /\ LET r == VendaDiaria(produtos, Evento[2], Evento[3], Evento[4])
       IN /\ produtos' = r.produtos
          /\ IF r.insuficiente
             THEN /\ tem_alertas_estoque' = TRUE
                  /\ alertas' = Append(alertas, r.alerta)
             ELSE UNCHANGED <<tem_alertas_estoque, alertas>>
    /\ pos' = pos + 1
    /\ UNCHANGED <<fifo, ajustes_necessarios, percentuais_ideais,
                   variante, arq_entradas, arq_vendas, pc, entrada_total,
                   entradas_por_data, movimentacoes_ordenadas, relatorio>>

\* the whole loop over a sequence of events, from given ledgers and a given
\* alert flag: what a run of processar_movimentacoes leaves behind
RECURSIVE processar_movimentacoes(_, _, _, _)
processar_movimentacoes(v, prods, flag, eventos) ==
    IF eventos = <<>>
    THEN [produtos |-> prods, tem_alertas_estoque |-> flag]
    ELSE LET ev == Head(eventos)
             r == CASE v = "permissiva" -> VendaPermissiva(prods, ev[2], ev[3], ev[4])
                    [] v = "estrita" -> VendaEstrita(prods, ev[2], ev[3], ev[4])
                    [] v = "diaria" -> VendaDiaria(prods, ev[2], ev[3], ev[4])
         IN IF ev[1] = "E"
            THEN processar_movimentacoes(v, DistribuirEntrada(prods, ev[2], ev[3]),
                                         flag, Tail(eventos))
            ELSE processar_movimentacoes(v, r.produtos, flag \/ r.insuficiente,
                                         Tail(eventos))

-----------------------------------------------------------------------------
(* Shortfall attribution: gerar_relatorio, once the replay loop has ended *)

FimDoLaco == pc = "processar" /\ pos > Len(movimentacoes_ordenadas)

Maximo(S) == CHOOSE x \in S : \A y \in S : y <= x

RECURSIVE SomaDias(_, _)
SomaDias(dic, dias) ==
    IF dias = {} THEN 0
    ELSE LET d == CHOOSE x \in dias : TRUE
         IN dic[d] + SomaDias(dic, dias \ {d})

\* a value printed with the format :.2f, in hundredths
DuasCasas(a, b) == (2 * a + b) \div (2 * b)

Impresso(entrada, percentual) ==
    [impresso |-> TRUE, entrada |-> entrada, percentual |-> percentual]

(* sistema_estoque.py *)
calcular_entradas_ate_data(dic, data_limite) ==
    SomaDias(dic, {d \in DOMAIN dic : d <= data_limite})

(* The percentage is computed in binary floating point (Python float, IEEE
   754 double): a value is a significand of Mantissa bits, most significant
   first, times a power of two, and each operation rounds its exact result to
   the nearest such value, ties to even. The bits are produced eight at a
   time, which keeps every intermediate number small, and every intermediate
   value is bound once, as the element of a singleton. *)
Mantissa == 53

Unico(S) == CHOOSE x \in S : TRUE

\* the k low bits of n, most significant first
BitsFixos(n, k) == <<>> \o [i \in 1 .. k |-> (n \div 2^(k - i)) % 2]

Comprimento(n) == CHOOSE l \in 0 .. 31 : n < 2^l /\ (l = 0 \/ n >= 2^(l - 1))

Bits(n) == Unico({BitsFixos(v, Comprimento(v)) : v \in {n}})

RECURSIVE Valor(_)
Valor(b) ==
    Unico({IF v = <<>> THEN 0
           ELSE 2 * Valor(SubSeq(v, 1, Len(v) - 1)) + v[Len(v)] : v \in {b}})

IncrementarBits(b) ==
    LET zeros == {i \in 1 .. Len(b) : b[i] = 0}
    IN IF zeros = {} THEN <<1>> \o [i \in 1 .. Len(b) |-> 0]
       ELSE LET j == Maximo(zeros)
            IN <<>> \o [i \in 1 .. Len(b) |->
                           IF i < j THEN b[i] ELSE IF i = j THEN 1 ELSE 0]

Incrementar(b) == Unico({IncrementarBits(v) : v \in {b}})

Float(mant, exp) == [mant |-> mant, exp |-> exp]

\* round to nearest, ties to even: resto is the discarded part, meio its half
Arredondar(mant, exp, resto, meio) ==
    LET acima == resto > meio \/ (resto = meio /\ mant[Len(mant)] = 1)
    IN Unico({IF Len(m) > Mantissa THEN Float(SubSeq(m, 1, Mantissa), exp + 1)
              ELSE Float(m, exp) :
                  m \in {IF acima THEN Incrementar(mant) ELSE mant}})

\* one step of the long division: up to eight more quotient bits
PassoDoQuociente(q, d) ==
    LET k == IF Mantissa - Len(q.mant) < 8 THEN Mantissa - Len(q.mant) ELSE 8
        x == q.resto * 2^k
    IN [mant |-> q.mant \o BitsFixos(x \div d, k), resto |-> x % d,
        fracao |-> q.fracao + k]

\* long division until the significand is full
RECURSIVE Quociente(_, _)
Quociente(q, d) ==
    IF Len(q.mant) = Mantissa THEN Arredondar(q.mant, -q.fracao, 2 * q.resto, d)
    ELSE Unico({Quociente(p, d) : p \in {PassoDoQuociente(q, d)}})

\* the quotient starts at its first significant bit
InicioDoQuociente(n, d) ==
    LET z == CHOOSE i \in 0 .. 31 : n * 2^i >= d /\ (i = 0 \/ n * 2^(i - 1) < d)
        x == n * 2^z
    IN [mant |-> Bits(x \div d), resto |-> x % d, fracao |-> z]

\* n / d of two whole-valued floats, n > 0 and d > 0
float_div(n, d) ==
    Unico({Quociente(InicioDoQuociente(a[1], a[2]), a[2]) : a \in {<<n, d>>}})

\* the exact product of a run of bits and a small whole number, eight bits
\* at a time from the right
RECURSIVE VezesBits(_, _, _)
VezesBits(b, c, vai) ==
    Unico({IF Len(v) <= 8 THEN Bits(Valor(v) * c + vai)
           ELSE Unico({VezesBits(SubSeq(v, 1, Len(v) - 8), c, x \div 2^8)
                           \o BitsFixos(x, 8) :
                               x \in {Valor(SubSeq(v, Len(v) - 7, Len(v))) * c + vai}}) :
               v \in {b}})

ArredondarProduto(produto, exp) ==
    Unico({IF Len(b) = Mantissa THEN Float(b, exp)
           ELSE Arredondar(SubSeq(b, 1, Mantissa), exp + Len(b) - Mantissa,
                           2 * Valor(SubSeq(b, Mantissa + 1, Len(b))),
                           2^(Len(b) - Mantissa)) :
               b \in {produto}})

\* x * c for a float x and a small whole c
float_mul(x, c) ==
    Unico({ArredondarProduto(VezesBits(v.mant, c, 0), v.exp) : v \in {x}})

\* math.ceil of a positive float
TetoDoFloat(x) ==
    LET inteiros == Mantissa + x.exp
    IN IF inteiros <= 0 THEN 1
       ELSE IF x.exp >= 0 THEN Valor(x.mant) * 2^(x.exp)
       ELSE Valor(SubSeq(x.mant, 1, inteiros))
            + (IF \E i \in inteiros + 1 .. Mantissa : x.mant[i] = 1
               THEN 1 ELSE 0)

math_ceil(x) == Unico({TetoDoFloat(v) : v \in {x}})

(* Signed values, for the balances: sinal is 1, -1 or 0, and 0.0 has no
   significand. A sum or a difference is computed exactly on the aligned
   significands and then rounded once, to nearest, ties to even. *)
ZeroFloat == [sinal |-> 0, mant |-> <<>>, exp |-> 0]

ComSinal(s, f) == [sinal |-> s, mant |-> f.mant, exp |-> f.exp]

Zeros(k) == <<>> \o [i \in 1 .. k |-> 0]

\* float() of a whole number n >= 0, which is exact
float(n) ==
    IF n = 0 THEN ZeroFloat
    ELSE Unico({[sinal |-> 1, mant |-> Bits(n) \o Zeros(Mantissa - l),
                 exp |-> l - Mantissa] : l \in {Comprimento(n)}})

\* the sum of two runs of bits of one length and a carry, one bit longer,
\* eight bits at a time from the right
RECURSIVE SomaBits(_, _, _)
SomaBits(a, b, vai) ==
    Unico({IF Len(v[1]) <= 8
           THEN BitsFixos(Valor(v[1]) + Valor(v[2]) + vai, Len(v[1]) + 1)
           ELSE LET n == Len(v[1])
                IN Unico({SomaBits(SubSeq(v[1], 1, n - 8), SubSeq(v[2], 1, n - 8),
                                   x \div 2^8) \o BitsFixos(x, 8) :
                              x \in {Valor(SubSeq(v[1], n - 7, n))
                                     + Valor(SubSeq(v[2], n - 7, n)) + vai}}) :
               v \in {<<a, b>>}})

Complemento(b) == <<>> \o [i \in 1 .. Len(b) |-> 1 - b[i]]

\* a - b of two runs of bits of one length, a >= b
MenosBits(a, b) == Tail(SomaBits(a, Complemento(b), 1))

\* a > b of two runs of bits of one length
MaiorBits(a, b) ==
    LET dif == {i \in 1 .. Len(a) : a[i] # b[i]}
    IN dif # {} /\ a[CHOOSE i \in dif : \A j \in dif : i <= j] = 1

\* the float nearest to s * bits * 2^exp: of the bits that do not fit, the
\* first is worth a half and any other one makes the rest more than a half
Normalizar(s, bits, exp) ==
    LET uns == {i \in 1 .. Len(bits) : bits[i] = 1}
    IN IF uns = {} THEN ZeroFloat
       ELSE Unico({IF Len(b) <= Mantissa
                   THEN [sinal |-> s, mant |-> b \o Zeros(Mantissa - Len(b)),
                         exp |-> exp - (Mantissa - Len(b))]
                   ELSE ComSinal(s,
                            Arredondar(SubSeq(b, 1, Mantissa),
                                       exp + Len(b) - Mantissa,
                                       2 * b[Mantissa + 1]
                                       + (IF \E i \in Mantissa + 2 .. Len(b) : b[i] = 1
                                          THEN 1 ELSE 0),
                                       2)) :
                       b \in {SubSeq(bits, CHOOSE i \in uns : \A j \in uns : i <= j,
                                     Len(bits))}})

\* the two significands over one exponent and with one length
Alinhar(x, y) ==
    LET e == IF x.exp < y.exp THEN x.exp ELSE y.exp
        a == x.mant \o Zeros(x.exp - e)
        b == y.mant \o Zeros(y.exp - e)
        n == IF Len(a) > Len(b) THEN Len(a) ELSE Len(b)
    IN [a |-> Zeros(n - Len(a)) \o a, b |-> Zeros(n - Len(b)) \o b, exp |-> e]

\* x + y
float_add(x, y) ==
    IF x.sinal = 0 THEN y
    ELSE IF y.sinal = 0 THEN x
    ELSE Unico({IF x.sinal = y.sinal
                THEN Normalizar(x.sinal, SomaBits(v.a, v.b, 0), v.exp)
                ELSE IF v.a = v.b THEN ZeroFloat
                ELSE IF MaiorBits(v.a, v.b)
                THEN Normalizar(x.sinal, MenosBits(v.a, v.b), v.exp)
                ELSE Normalizar(y.sinal, MenosBits(v.b, v.a), v.exp) :
                    v \in {Alinhar(x, y)}})

\* x - y
float_sub(x, y) == float_add(x, [y EXCEPT !.sinal = -y.sinal])

\* x > y: the difference, which is 0.0 only for equal values, is positive
float_gt(x, y) == float_sub(x, y).sinal = 1

(* The replay loop of sistema_estoque.py on lots whose shares are not whole
   numbers: the balances, the quantities of the movements and the largest
   shortfall are floats, and every += and -= rounds. *)
ProdutoFloat(codigo, percentual) ==
    [Produto(codigo, percentual) EXCEPT !.saldo_atual = ZeroFloat,
                                        !.maior_falta_estoque = ZeroFloat]

\* (quantidade * produto.percentual) / 100: the product of the two whole
\* values is exact, the quotient is rounded
quantidade_derivada_float(quantidade, percentual) ==
    IF quantidade * percentual = 0 THEN ZeroFloat
    ELSE ComSinal(1, float_div(quantidade * percentual, 100))

registrar_entrada_float(p, data, quantidade) ==
    Unico({[p EXCEPT !.saldo_atual = saldo,
                     !.movimentacoes =
                         Append(@, Movimentacao(data, "E", quantidade, saldo))] :
               saldo \in {float_add(p.saldo_atual, quantidade)}})

registrar_saida_float(p, data, quantidade) ==
    Unico({[produto |-> [p EXCEPT !.saldo_atual = saldo,
                                  !.movimentacoes =
                                      Append(@, Movimentacao(data, "S", quantidade, saldo))],
            retorno |-> ~float_gt(quantidade, p.saldo_atual)] :
               saldo \in {float_sub(p.saldo_atual, quantidade)}})

\* the body of the loop for an 'E' event
DistribuirEntradaFloat(prods, data, quantidade) ==
    [c \in DOMAIN prods |->
        registrar_entrada_float(prods[c], data,
            quantidade_derivada_float(quantidade, prods[c].percentual))]

\* the body of the loop for a sale event; quantidade is the whole number of
\* the row, which the loader turned into a float
VendaPermissivaFloat(prods, data, quantidade, codigo) ==
    LET r == registrar_saida_float(prods[codigo], data, float(quantidade))
        p == r.produto
    IN [produtos |->
            IF ~r.retorno
            THEN [prods EXCEPT ![codigo] =
                     IF float_gt(p.maior_falta_estoque, p.saldo_atual)
                     THEN [p EXCEPT !.maior_falta_estoque = p.saldo_atual,
                                    !.data_maior_falta_estoque = data]
                     ELSE p]
            ELSE [prods EXCEPT ![codigo] = p],
        insuficiente |-> ~r.retorno,
        alerta |-> Alerta(data, p, quantidade)]

ProcessarEntradaFloat ==
    /\ NoLaco
    /\ Evento[1] = "E"
    /\ produtos' = DistribuirEntradaFloat(produtos, Evento[2], Evento[3])
    /\ pos' = pos + 1
    /\ UNCHANGED <<fifo, ajustes_necessarios, percentuais_ideais,
                   variante, arq_entradas, arq_vendas, pc, entrada_total,
                   entradas_por_data, movimentacoes_ordenadas,
                   tem_alertas_estoque, alertas, relatorio>>

ProcessarVendaFloat ==
    /\ NoLaco
    /\ variante = "permissiva"
    /\ Evento[1] = "S"
    /\ LET r == VendaPermissivaFloat(produtos, Evento[2], Evento[3], Evento[4])
       IN /\ produtos' = r.produtos
          /\ IF r.insuficiente
             THEN /\ tem_alertas_estoque' = TRUE
                  /\ alertas' = Append(alertas, r.alerta)
             ELSE UNCHANGED <<tem_alertas_estoque, alertas>>
    /\ pos' = pos + 1
    /\ UNCHANGED <<fifo, ajustes_necessarios, percentuais_ideais,
                   variante, arq_entradas, arq_vendas, pc, entrada_total,
                   entradas_por_data, movimentacoes_ordenadas, relatorio>>

\* the whole loop over a sequence of events, from given ledgers
RECURSIVE processar_movimentacoes_float(_, _, _)
processar_movimentacoes_float(prods, flag, eventos) ==
    IF eventos = <<>>
    THEN [produtos |-> prods, tem_alertas_estoque |-> flag]
    ELSE LET ev == Head(eventos)
         IN IF ev[1] = "E"
            THEN processar_movimentacoes_float(
                     DistribuirEntradaFloat(prods, ev[2], ev[3]), flag, Tail(eventos))
            ELSE Unico({processar_movimentacoes_float(
                            r.produtos, flag \/ r.insuficiente, Tail(eventos)) :
                            r \in {VendaPermissivaFloat(prods, ev[2], ev[3], ev[4])}})

\* in hundredths of a percent: math.ceil(percentual_falta * 100); the final
\* division by 100 and the printing show that whole number of hundredths
calcula_percentual_falta(p, entradas) ==
    math_ceil(float_mul(float_div(p.maior_falta_estoque * (-100), entradas), 100))

\* products are visited in the order of self.produtos; a division by zero
\* raises ZeroDivisionError and ends the script
GerarRelatorioPermissiva ==
    /\ FimDoLaco
    /\ variante = "permissiva"
    /\ LET tentativa == {c \in DOMAIN produtos : produtos[c].maior_falta_estoque < 0}
           entradas(c) == calcular_entradas_ate_data(entradas_por_data,
                              produtos[c].data_maior_falta_estoque)
           falhas == {c \in tentativa : entradas(c) = 0}
           feitos == {c \in tentativa : \A f \in falhas : c < f}
       IN /\ relatorio' = [c \in DOMAIN produtos |->
                 IF c \in feitos
                 THEN Impresso(entradas(c),
                               calcula_percentual_falta(produtos[c], entradas(c)))
                 ELSE NaoImpresso]
          /\ pc' = IF falhas = {} THEN "fim" ELSE "erro"
    /\ UNCHANGED <<fifo, ajustes_necessarios, percentuais_ideais,
                   variante, arq_entradas, arq_vendas, produtos, entrada_total,
                   entradas_por_data, movimentacoes_ordenadas, pos,
                   tem_alertas_estoque, alertas>>

(* backup/sistema_estoque copy.py: the report has no shortfall section *)
GerarRelatorioEstrita ==
    /\ FimDoLaco
    /\ variante = "estrita"
    /\ pc' = "fim"
    /\ UNCHANGED <<fifo, ajustes_necessarios, percentuais_ideais,
                   variante, arq_entradas, arq_vendas, produtos, entrada_total,
                   entradas_por_data, movimentacoes_ordenadas, pos,
                   tem_alertas_estoque, alertas, relatorio>>

(* relacao_diaria.py *)
encontrar_entrada_do_dia(dic, data) ==
    LET data_sem_hora == data
        datas_anteriores == {d \in DOMAIN dic : dic[d] # 0 /\ d < data_sem_hora}
    IN IF dic[data_sem_hora] # 0 THEN dic[data_sem_hora]
       ELSE IF datas_anteriores # {} THEN dic[Maximo(datas_anteriores)]
       ELSE 0

GerarRelatorioDiaria ==
    /\ FimDoLaco
    /\ variante = "diaria"
    /\ relatorio' = [c \in DOMAIN produtos |->
          LET p == produtos[c]
              entrada_do_dia == encontrar_entrada_do_dia(entradas_por_data,
                                    p.dia_mais_vendas_negativas)
          IN IF p.tentativa_venda_negativa /\ p.dia_mais_vendas_negativas # None
             THEN Impresso(entrada_do_dia,
                           IF entrada_do_dia > 0
                           THEN DuasCasas(p.total_falta_estoque * 100 * 100,
                                          entrada_do_dia)
                           ELSE 0)
             ELSE NaoImpresso]
    /\ pc' = "fim"
    /\ UNCHANGED <<fifo, ajustes_necessarios, percentuais_ideais,
                   variante, arq_entradas, arq_vendas, produtos, entrada_total,
                   entradas_por_data, movimentacoes_ordenadas, pos,
                   tem_alertas_estoque, alertas>>

-----------------------------------------------------------------------------
(* Percentage recalibrator: calcular_percentuais_ideais of the backup copy, *)
(* called by main() after the report when an alert was raised.             *)
(* A fraction is a pair <<numerator, denominator>> in lowest terms.         *)

Abs(x) == IF x < 0 THEN -x ELSE x

RECURSIVE MDC(_, _)
MDC(a, b) == IF b = 0 THEN Abs(a) ELSE MDC(b, a % b)

Fracao(n, d) == LET g == MDC(n, d) IN <<n \div g, d \div g>>

Mais(x, y) ==
    LET l == (x[2] \div MDC(x[2], y[2])) * y[2]
    IN Fracao(x[1] * (l \div x[2]) + y[1] * (l \div y[2]), l)

Vezes(x, y) ==
    LET g1 == MDC(x[1], y[2])
        g2 == MDC(y[1], x[2])
    IN <<(x[1] \div g1) * (y[1] \div g2), (x[2] \div g2) * (y[2] \div g1)>>

MenorQue(x, y) == x[1] * y[2] < y[1] * x[2]

min(x, y) == IF MenorQue(y, x) THEN y ELSE x

RECURSIVE SomaFracoes(_, _)
SomaFracoes(f, S) ==
    IF S = {} THEN <<0, 1>>
    ELSE LET c == CHOOSE x \in S : TRUE
         IN Mais(f[c], SomaFracoes(f, S \ {c}))

\* round(x, 2), in hundredths: the nearest hundredth, a tie going to the even
\* one (the exact value is rounded, not its binary approximation)
round2(x) ==
    LET q == x[1] \div x[2]
        r == Fracao(100 * (x[1] % x[2]), x[2])
        c == r[1] \div r[2]
        resto == r[1] % r[2]
        centesimos == IF 2 * resto < r[2] THEN c
                      ELSE IF 2 * resto > r[2] THEN c + 1
                      ELSE IF c % 2 = 0 THEN c ELSE c + 1
    IN 100 * q + centesimos

RECURSIVE dias_com_problema(_)
dias_com_problema(movs) ==
    IF movs = <<>> THEN 0
    ELSE (IF Head(movs).tipo = "S" /\ Head(movs).saldo_apos < 0 THEN 1 ELSE 0)
         + dias_com_problema(Tail(movs))

RECURSIVE soma_problemas(_)
soma_problemas(movs) ==
    IF movs = <<>> THEN 0
    ELSE (IF Head(movs).tipo = "S" /\ Head(movs).saldo_apos < 0
          THEN Abs(Head(movs).saldo_apos) ELSE 0)
         + soma_problemas(Tail(movs))

\* faulty variant: the adjustment is not limited to 50%
ajuste_sem_limite(p) ==
    LET total_dias == Len(p.movimentacoes)
        frequencia == Fracao(dias_com_problema(p.movimentacoes), total_dias)
        gravidade == Fracao(soma_problemas(p.movimentacoes),
                            IF total_saidas(p) > 0 THEN total_saidas(p) ELSE 1)
    IN IF total_dias = 0 THEN <<0, 1>>
       ELSE IF dias_com_problema(p.movimentacoes) = 0 THEN <<0, 1>>
       ELSE Mais(frequencia, gravidade)

\* first pass: ajustes_necessarios[codigo] of one product
ajuste(p) ==
    LET total_dias == Len(p.movimentacoes)
        frequencia == Fracao(dias_com_problema(p.movimentacoes), total_dias)
        gravidade == Fracao(soma_problemas(p.movimentacoes),
                            IF total_saidas(p) > 0 THEN total_saidas(p) ELSE 1)
    IN IF total_dias = 0 THEN <<0, 1>>
       ELSE IF dias_com_problema(p.movimentacoes) = 0 THEN <<0, 1>>
       ELSE min(Mais(frequencia, gravidade), <<1, 2>>)

\* second pass: the percentage before normalisation
percentual_ideal(p, aj) ==
    IF MenorQue(<<0, 1>>, aj)
    THEN Vezes(<<p.percentual, 1>>, Mais(<<1, 1>>, aj))
    ELSE <<p.percentual, 1>>

\* faulty variant: the raw percentages are not scaled back
fator_normalizacao_um(total_atual, total_novo) == <<1, 1>>

fator_normalizacao(total_atual, total_novo) ==
    Vezes(<<total_atual, 1>>, <<total_novo[2], total_novo[1]>>)

\* main(): if controlador.tem_alertas_estoque: calcular_percentuais_ideais().
\* total_atual / total_novo raises ZeroDivisionError when total_novo is 0.
calcular_percentuais_ideais ==
    /\ pc = "fim"
    /\ variante = "estrita"
    /\ tem_alertas_estoque
    /\ LET aj == [c \in DOMAIN produtos |-> ajuste(produtos[c])]
           ideal == [c \in DOMAIN produtos |-> percentual_ideal(produtos[c], aj[c])]
           total_atual == SomaDias([c \in DOMAIN produtos |-> produtos[c].percentual],
                                   DOMAIN produtos)
           total_novo == SomaFracoes(ideal, DOMAIN produtos)
       IN /\ ajustes_necessarios' = aj
          /\ IF total_novo[1] = 0
             THEN /\ pc' = "erro"
                  /\ UNCHANGED percentuais_ideais
             ELSE /\ pc' = "ideais"
                  /\ percentuais_ideais' = [c \in DOMAIN produtos |->
                         round2(Vezes(ideal[c],
                                      fator_normalizacao(total_atual, total_novo)))]
    /\ UNCHANGED <<fifo, variante, arq_entradas, arq_vendas, produtos,
                   entrada_total, entradas_por_data, movimentacoes_ordenadas,
                   pos, tem_alertas_estoque, alertas, relatorio>>

-----------------------------------------------------------------------------
(* FIFO cut allocator: the script at the top of relacao_diaria.py.         *)
(* Quantities are whole numbers, so "> 1e-9" is "> 0" and "<= 1e-9" is     *)
(* "<= 0".  CUT_DESC is the description of CUT_CODE and is left out.       *)

\* line 30 and line 50: in_sorted.loc[entry_idx, 'QUANTIDADE']
Lote(idx) == in_sorted[idx + 1]

\* lines 28-30; .loc[0, ...] on a frame without rows raises KeyError
IniciarAlocacao ==
    /\ pcf = "inicio"
    /\ alloc' = <<>>
    /\ entry_idx' = 0
    /\ IF Len(in_sorted) > 0
       THEN /\ remain' = Lote(0)[2]
            /\ pcf' = "for"
       ELSE /\ pcf' = "erro"
            /\ UNCHANGED remain
    /\ UNCHANGED <<controle, in_sorted, out_sorted, need, out_pos, summary>>

\* line 32-33: the for loop takes the next sale row
ProximaSaida ==
    /\ pcf = "for"
    /\ out_pos < Len(out_sorted)
    /\ out_pos' = out_pos + 1
    /\ need' = out_sorted[out_pos + 1][3]
    /\ pcf' = "while"
    /\ UNCHANGED <<controle, in_sorted, out_sorted, alloc, entry_idx, remain,
                   summary>>

\* line 32: no sale row is left, the loop ends
FimDasSaidas ==
    /\ pcf = "for"
    /\ out_pos = Len(out_sorted)
    /\ pcf' = "alocado"
    /\ UNCHANGED <<controle, in_sorted, out_sorted, alloc, entry_idx, remain,
                   need, out_pos, summary>>

\* faulty variant: the loop goes on after the last lot
condicao_while_sem_limite == need > 0

\* line 34
condicao_while == need > 0 /\ entry_idx < Len(in_sorted)

\* faulty variant: the sale takes all it needs from the current lot
take_need(necessario, restante) == necessario

\* line 35: min(need, remain)
take(necessario, restante) ==
    IF restante < necessario THEN restante ELSE necessario

\* faulty variant: the cursor moves to the next lot after every allocation
AlocarAvancando ==
    /\ pcf = "while"
    /\ condicao_while
    /\ IF entry_idx < Len(in_sorted)
       THEN LET out_row == out_sorted[out_pos]
                tomado == take(need, remain)
                resto == remain - tomado
            IN /\ alloc' = Append(alloc,
                      [ENTRY_IDX |-> entry_idx,
                       ENTRY_DATE |-> Lote(entry_idx)[1],
                       ENTRY_QTY |-> Lote(entry_idx)[2],
                       OUT_DATE |-> out_row[1],
                       CUT_CODE |-> out_row[2],
                       ALLOC_KG |-> tomado])
               /\ need' = need - tomado
               /\ entry_idx' = entry_idx + 1
               /\ remain' = IF entry_idx + 1 < Len(in_sorted)
                            THEN Lote(entry_idx + 1)[2] ELSE resto
               /\ UNCHANGED pcf
       ELSE /\ pcf' = "erro"
            /\ UNCHANGED <<alloc, need, entry_idx, remain>>
    /\ UNCHANGED <<controle, in_sorted, out_sorted, out_pos, summary>>

\* lines 35-50: one iteration of the while loop; reading a lot that does not
\* exist raises KeyError
Alocar ==
    /\ pcf = "while"
    /\ condicao_while
    /\ IF entry_idx < Len(in_sorted)
       THEN LET out_row == out_sorted[out_pos]
                tomado == take(need, remain)
                resto == remain - tomado
            IN /\ alloc' = Append(alloc,
                      [ENTRY_IDX |-> entry_idx,
                       ENTRY_DATE |-> Lote(entry_idx)[1],
                       ENTRY_QTY |-> Lote(entry_idx)[2],
                       OUT_DATE |-> out_row[1],
                       CUT_CODE |-> out_row[2],
                       ALLOC_KG |-> tomado])
               /\ need' = need - tomado
               /\ IF resto <= 0
                  THEN /\ entry_idx' = entry_idx + 1
                       /\ remain' = IF entry_idx + 1 < Len(in_sorted)
                                    THEN Lote(entry_idx + 1)[2] ELSE resto
                  ELSE /\ remain' = resto
                       /\ UNCHANGED entry_idx
               /\ UNCHANGED pcf
       ELSE /\ pcf' = "erro"
            /\ UNCHANGED <<alloc, need, entry_idx, remain>>
    /\ UNCHANGED <<controle, in_sorted, out_sorted, out_pos, summary>>

\* line 34: the condition of the while loop is false
SairDoWhile ==
    /\ pcf = "while"
    /\ ~condicao_while
    /\ pcf' = "for"
    /\ UNCHANGED <<controle, in_sorted, out_sorted, alloc, entry_idx, remain,
                   need, out_pos, summary>>

\* line 56: the keys of the groups, in the order groupby leaves them; the
\* description of a sale row is given by its code, which stands for CUT_DESC
Grupos == {<<alloc[i].ENTRY_IDX, alloc[i].ENTRY_DATE, alloc[i].CUT_CODE>> :
              i \in 1..Len(alloc)}

ChaveMenor(x, y) ==
    \/ x[1] < y[1]
    \/ x[1] = y[1] /\ x[2] < y[2]
    \/ x[1] = y[1] /\ x[2] = y[2] /\ x[3] < y[3]

RECURSIVE EmOrdem(_)
EmOrdem(S) ==
    IF S = {} THEN <<>>
    ELSE LET x == CHOOSE k \in S : \A y \in S \ {k} : ChaveMenor(k, y)
         IN <<x>> \o EmOrdem(S \ {x})

\* line 56: ['ALLOC_KG'].sum() of one group
ALLOC_KG(chave) ==
    SomaDias([i \in 1..Len(alloc) |->
                 IF <<alloc[i].ENTRY_IDX, alloc[i].ENTRY_DATE, alloc[i].CUT_CODE>> = chave
                 THEN alloc[i].ALLOC_KG ELSE 0],
             1..Len(alloc))

\* faulty variant: the share is left as a fraction of the lot
PERCENT_fracao(alloc_kg, entry_qty) == float_div(alloc_kg, entry_qty)

\* line 58, in floating point
PERCENT(alloc_kg, entry_qty) == float_mul(float_div(alloc_kg, entry_qty), 100)

\* lines 53-58: the frame of the allocation entries and its summary; a frame
\* made from an empty list has no columns and groupby raises KeyError
Sumario ==
    /\ pcf = "alocado"
    /\ IF alloc = <<>>
       THEN /\ pcf' = "erro"
            /\ UNCHANGED summary
       ELSE /\ summary' =
                 LET chaves == EmOrdem(Grupos)
                 IN [k \in 1..Len(chaves) |->
                       LET entry_qty == Lote(chaves[k][1])[2]
                       IN [ENTRY_IDX |-> chaves[k][1],
                           ENTRY_DATE |-> chaves[k][2],
                           CUT_DESC |-> chaves[k][3],
                           ALLOC_KG |-> ALLOC_KG(chaves[k]),
                           ENTRY_QTY |-> entry_qty,
                           PERCENT |-> PERCENT(ALLOC_KG(chaves[k]), entry_qty)]]
            /\ pcf' = "sumario"
    /\ UNCHANGED <<controle, in_sorted, out_sorted, alloc, entry_idx, remain,
                   need, out_pos>>

-----------------------------------------------------------------------------

Next ==
    \/ carregar_movimentacoes
    \/ ProcessarEntrada
    \/ ProcessarVendaPermissiva
    \/ ProcessarVendaEstrita
    \/ ProcessarVendaDiaria
    \/ GerarRelatorioPermissiva
    \/ GerarRelatorioEstrita
    \/ GerarRelatorioDiaria
    \/ calcular_percentuais_ideais

Spec == Init /\ [][Next]_vars

NextDiaria ==
    \/ carregar_movimentacoes
    \/ ProcessarEntrada
    \/ ProcessarVendaDiaria
    \/ GerarRelatorioDiaria

SpecDiaria == InitDiaria /\ [][NextDiaria]_vars

\* the three scripts on a second percentuais file whose yields sum to 99
InitRendimento ==
    /\ variante \in Variantes
    /\ arq_entradas \in SeqsAte(LinhasEntrada, MaxEntradas)
    /\ arq_vendas \in SeqsAte(LinhasVenda, MaxVendasRendimento)
    /\ pc = "carregar"
    /\ \E cfg \in PercentuaisIdeais :
          produtos = [c \in Codigos |-> Produto(c, cfg[c])]
    /\ entrada_total = 0
    /\ entradas_por_data = [d \in Dias |-> 0]
    /\ movimentacoes_ordenadas = <<>>
    /\ pos = 1
    /\ tem_alertas_estoque = FALSE
    /\ alertas = <<>>
    /\ relatorio = [c \in Codigos |-> NaoImpresso]
    /\ ajustes_necessarios = <<>>
    /\ percentuais_ideais = <<>>
    /\ AlocacaoParada

SpecRendimento == InitRendimento /\ [][Next]_vars

\* a ledger written by registrar_entrada and by the registrar_saida that
\* records every sale, the balance going below zero
RECURSIVE Lancar(_, _)
Lancar(p, lancamentos) ==
    IF lancamentos = <<>> THEN p
    ELSE LET l == Head(lancamentos)
         IN Lancar(IF l[1] = "E" THEN registrar_entrada(p, 1, l[2])
                   ELSE registrar_saida_permissiva(p, 1, l[2]).produto,
                   Tail(lancamentos))

\* calcular_percentuais_ideais reads only self.produtos: here it is applied
\* to a controller whose ledgers hold sales recorded below zero, the third
\* product having no movement or one intake
InitIdeais ==
    /\ variante = "estrita"
    /\ arq_entradas = <<>>
    /\ arq_vendas = <<>>
    /\ pc = "fim"
    /\ \E cfg \in PercentuaisIdeais :
       \E h1, h2 \in SeqsAte(LancamentosIdeais, MaxMovimentacoes) :
       \E h3 \in SeqsAte({<<"E", 6>>}, 1) :
          produtos = [c \in Codigos |->
                         Lancar(Produto(c, cfg[c]),
                                IF c = 1 THEN h1 ELSE IF c = 2 THEN h2 ELSE h3)]
    /\ entrada_total = 0
    /\ entradas_por_data = [d \in Dias |-> 0]
    /\ movimentacoes_ordenadas = <<>>
    /\ pos = 1
    /\ tem_alertas_estoque = TRUE
    /\ alertas = <<>>
    /\ relatorio = [c \in Codigos |-> NaoImpresso]
    /\ ajustes_necessarios = <<>>
    /\ percentuais_ideais = <<>>
    /\ AlocacaoParada

NextIdeais == calcular_percentuais_ideais

SpecIdeais == InitIdeais /\ [][NextIdeais]_vars

\* the rows of a frame after sort_values('DATETIME'): the days never decrease
Cronologicas(S, n) ==
    {s \in SeqsAte(S, n) : \A i \in 1..Len(s) - 1 : s[i][1] <= s[i + 1][1]}

\* the allocation script before line 28; no two sale rows have the same day
\* and product, so that OUT_DATE and CUT_CODE tell the sales apart
InitFIFO ==
    /\ variante = "diaria"
    /\ arq_entradas = <<>>
    /\ arq_vendas = <<>>
    /\ Controlador
    /\ in_sorted \in Cronologicas(LotesFIFO, MaxLotes)
    /\ out_sorted \in {s \in Cronologicas(SaidasFIFO, MaxSaidas) :
                          \A i, j \in 1..Len(s) :
                              i # j => <<s[i][1], s[i][2]>> # <<s[j][1], s[j][2]>>}
    /\ alloc = <<>>
    /\ entry_idx = 0
    /\ remain = 0
    /\ need = 0
    /\ out_pos = 0
    /\ summary = <<>>
    /\ pcf = "inicio"

NextFIFO ==
    \/ IniciarAlocacao
    \/ ProximaSaida
    \/ FimDasSaidas
    \/ Alocar
    \/ SairDoWhile

SpecFIFO == InitFIFO /\ [][NextFIFO]_vars

\* the script is sequential: it takes its next step as long as it has one
SpecFIFOJusta == SpecFIFO /\ WF_vars(NextFIFO)

\* the allocation loop followed by the summary of lines 52-58
NextSumario ==
    \/ NextFIFO
    \/ Sumario

SpecSumario == InitFIFO /\ [][NextSumario]_vars

\* sistema_estoque.py on lots and sales that are not round numbers
LinhasEntradaFalta == {<<1, 100>>, <<1, 125>>, <<2, 250>>}
LinhasVendaFalta == {2, 3} \X {1, 2} \X {61, 70}

InitFalta ==
    /\ variante = "permissiva"
    /\ arq_entradas \in SeqsAte(LinhasEntradaFalta, MaxEntradas)
    /\ arq_vendas \in SeqsAte(LinhasVendaFalta, MaxVendas)
    /\ Controlador
    /\ AlocacaoParada

NextPermissiva ==
    \/ carregar_movimentacoes
    \/ ProcessarEntrada
    \/ ProcessarVendaPermissiva
    \/ GerarRelatorioPermissiva

SpecFalta == InitFalta /\ [][NextPermissiva]_vars

\* sistema_estoque.py on small lots, whose shares (0.6, 2.4, ...) have no
\* exact binary value: up to MaxMovimentacoes lots, two of them of the same
\* day, and whole-number sales
LinhasEntradaOrdem == {<<1, 1>>, <<1, 4>>, <<2, 100>>}
LinhasVendaOrdem == {<<1, 1, 1>>, <<2, 2, 3>>}

InitOrdem ==
    /\ variante = "permissiva"
    /\ arq_entradas \in SeqsAte(LinhasEntradaOrdem, MaxMovimentacoes)
    /\ arq_vendas \in SeqsAte(LinhasVendaOrdem, MaxVendasRendimento)
    /\ pc = "carregar"
    /\ produtos = [c \in Codigos |-> ProdutoFloat(c, Percentuais[c])]
    /\ entrada_total = 0
    /\ entradas_por_data = [d \in Dias |-> 0]
    /\ movimentacoes_ordenadas = <<>>
    /\ pos = 1
    /\ tem_alertas_estoque = FALSE
    /\ alertas = <<>>
    /\ relatorio = [c \in Codigos |-> NaoImpresso]
    /\ ajustes_necessarios = <<>>
    /\ percentuais_ideais = <<>>
    /\ AlocacaoParada

NextOrdem ==
    \/ carregar_movimentacoes
    \/ ProcessarEntradaFloat
    \/ ProcessarVendaFloat

SpecOrdem == InitOrdem /\ [][NextOrdem]_vars

-----------------------------------------------------------------------------
(* Properties *)

Ultimo(s) == s[Len(s)]

\* the loop is about to process a sale, under one of the given variants
VendaNoLaco(vs) == NoLaco /\ variante \in vs /\ Evento[1] = "S"

Estritas == {"estrita", "diaria"}

C2_VendaEstrita ==
    [][VendaNoLaco(Estritas) =>
        LET c == Evento[4]
            q == Evento[3]
            antes == produtos[c]
            depois == produtos'[c]
        IN IF antes.saldo_atual >= q
           THEN /\ depois.saldo_atual = antes.saldo_atual - q
                /\ depois.movimentacoes =
                       Append(antes.movimentacoes,
                              [data |-> Evento[2], tipo |-> "S", quantidade |-> q,
                               saldo_apos |-> antes.saldo_atual - q])
                /\ alertas' = alertas
           ELSE /\ depois.saldo_atual = antes.saldo_atual
                /\ depois.movimentacoes = antes.movimentacoes
                /\ Len(alertas') = Len(alertas) + 1]_vars

\* a strict replay where one sale took a whole balance, leaving 0, and
\* another sale was blocked
C2_Witness ==
    /\ variante \in Estritas
    /\ alertas # <<>>
    /\ \E c \in DOMAIN produtos :
          /\ produtos[c].movimentacoes # <<>>
          /\ Ultimo(produtos[c].movimentacoes).tipo = "S"
          /\ produtos[c].saldo_atual = 0

\* C3: under the permissive policy a sale of q always subtracts q and appends
\* one 'S' movement carrying the balance after the decrement; it returns False
\* exactly when q was greater than the balance before the decrement.
C3_VendaPermissiva ==
    [][VendaNoLaco({"permissiva"}) =>
        LET c == Evento[4]
            q == Evento[3]
            antes == produtos[c]
            depois == produtos'[c]
        IN /\ depois.saldo_atual = antes.saldo_atual - q
           /\ depois.movimentacoes =
                  Append(antes.movimentacoes,
                         [data |-> Evento[2], tipo |-> "S", quantidade |-> q,
                          saldo_apos |-> antes.saldo_atual - q])
           /\ IF q > antes.saldo_atual
              THEN Len(alertas') = Len(alertas) + 1
              ELSE alertas' = alertas]_vars

\* a permissive replay where a sale took a whole balance without an alert and
\* another product was driven below zero
C3_Witness ==
    /\ variante = "permissiva"
    /\ Len(alertas) = 1
    /\ \E c \in DOMAIN produtos :
          /\ produtos[c].movimentacoes # <<>>
          /\ Ultimo(produtos[c].movimentacoes).tipo = "S"
          /\ produtos[c].saldo_atual = 0
          /\ alertas[1].codigo # c
    /\ \E c \in DOMAIN produtos : produtos[c].saldo_atual < 0

\* the events the loop has already processed
Processados == SubSeq(movimentacoes_ordenadas, 1, pos - 1)

Contar(s, Teste(_)) == Cardinality({i \in 1..Len(s) : Teste(s[i])})

\* C4: every intake event of quantity Q gives every configured product, the
\* products with percentual 0 included, exactly one 'E' movement of quantity
\* Q * percentual / 100 and raises its balance by that amount; so each
\* product's number of 'E' movements is the number of intake events processed.
C4_EntradaParaTodos ==
    /\ [](\A c \in DOMAIN produtos :
            LET EhE(m) == m.tipo = "E"
                EhEntrada(e) == e[1] = "E"
            IN Contar(produtos[c].movimentacoes, EhE) = Contar(Processados, EhEntrada))
    /\ [][(NoLaco /\ Evento[1] = "E") =>
            \A c \in DOMAIN produtos :
                LET parte == (Evento[3] * Percentuais[c]) \div 100
                    antes == produtos[c]
                    depois == produtos'[c]
                IN /\ depois.saldo_atual = antes.saldo_atual + parte
                   /\ depois.movimentacoes =
                          Append(antes.movimentacoes,
                                 [data |-> Evento[2], tipo |-> "E",
                                  quantidade |-> parte,
                                  saldo_apos |-> antes.saldo_atual + parte])]_vars

\* two intakes were processed and the product with yield 0 holds two 'E'
\* movements of quantity 0
C4_Witness ==
    /\ Len(produtos[3].movimentacoes) = 2
    /\ \A i \in 1..2 : /\ produtos[3].movimentacoes[i].tipo = "E"
                       /\ produtos[3].movimentacoes[i].quantidade = 0
    /\ produtos[1].saldo_atual = 180

\* C5: the merged sequence holds every intake row and every sale row with a
\* configured product code exactly as often as the files do, nothing else,
\* and its dates never decrease.
C5_MescladaPermutacaoOrdenada ==
    pc # "carregar" =>
        /\ \A e \in {movimentacoes_ordenadas[i] : i \in 1..Len(movimentacoes_ordenadas)}
                      \cup {<<"E", arq_entradas[i][1], arq_entradas[i][2], None>> :
                               i \in 1..Len(arq_entradas)}
                      \cup {<<"S", arq_vendas[i][1], arq_vendas[i][3], arq_vendas[i][2]>> :
                               i \in {j \in 1..Len(arq_vendas) : arq_vendas[j][2] \in Codigos}} :
              LET Igual(x) == x = e
                  LinhaE(l) == e = <<"E", l[1], l[2], None>>
                  LinhaS(l) == l[2] \in Codigos /\ e = <<"S", l[1], l[3], l[2]>>
              IN Contar(movimentacoes_ordenadas, Igual) =
                     Contar(arq_entradas, LinhaE) + Contar(arq_vendas, LinhaS)
        /\ LET Configurado(l) == l[2] \in Codigos
           IN Len(movimentacoes_ordenadas) =
                  Len(arq_entradas) + Contar(arq_vendas, Configurado)
        /\ \A i \in 1..Len(movimentacoes_ordenadas) - 1 :
              movimentacoes_ordenadas[i][2] <= movimentacoes_ordenadas[i + 1][2]

\* intake rows out of date order and a dropped sale row: the kept sale is
\* merged between the two intakes
C5_Witness ==
    /\ pc = "processar"
    /\ Len(arq_entradas) = 2 /\ arq_entradas[1][1] > arq_entradas[2][1]
    /\ Len(arq_vendas) = 2
    /\ \E i \in 1..2 : arq_vendas[i][2] \notin Codigos
    /\ Len(movimentacoes_ordenadas) = 3
    /\ movimentacoes_ordenadas[2][1] = "S"

\* a sale whose quantity exceeds the balance of its product is next
VendaInsuficiente(vs) ==
    VendaNoLaco(vs) /\ Evento[3] > produtos[Evento[4]].saldo_atual

\* some processed sale was insufficient, read from what the ledgers keep: a
\* permissive ledger holds an 'S' movement with a negative balance, a strict
\* ledger holds fewer 'S' movements than sales were processed for the product
HouveInsuficiente ==
    \E c \in DOMAIN produtos :
        LET EhS(m) == m.tipo = "S"
            Negativo(m) == m.tipo = "S" /\ m.saldo_apos < 0
            VendaDe(e) == e[1] = "S" /\ e[4] = c
        IN IF variante = "permissiva"
           THEN Contar(produtos[c].movimentacoes, Negativo) > 0
           ELSE Contar(Processados, VendaDe) > Contar(produtos[c].movimentacoes, EhS)

\* C6: tem_alertas_estoque is False before processing, becomes True at the
\* first sale whose quantity exceeds the balance of its product at that
\* moment, by no other step, and is never reset; so it is True exactly when
\* some processed sale was insufficient.
C6_AlertaLigaEFica ==
    /\ tem_alertas_estoque = FALSE
    /\ [](tem_alertas_estoque <=> HouveInsuficiente)
    /\ [][/\ tem_alertas_estoque => tem_alertas_estoque'
          /\ VendaInsuficiente(Variantes) => tem_alertas_estoque'
          /\ (~tem_alertas_estoque /\ tem_alertas_estoque')
                 => VendaInsuficiente(Variantes)]_vars

\* the flag is still set at the end of a replay whose last events were
\* an intake and a sufficient sale
C6_Witness ==
    /\ FimDoLaco
    /\ tem_alertas_estoque
    /\ Len(alertas) = 1
    /\ Len(movimentacoes_ordenadas) = 4
    /\ movimentacoes_ordenadas[1][1] = "S"
    /\ movimentacoes_ordenadas[4][1] = "S"

\* C7: in the shortfall-tracking variant each insufficient sale contributes
\* missing = requested quantity - balance before the attempt, which is > 0,
\* and total_falta_estoque is the sum of these missing quantities, each
\* counted once: it starts at 0, grows by the missing quantity at every
\* insufficient sale of the product and changes at no other step.
C7_FaltaTotalContadaUmaVez ==
    /\ \A c \in DOMAIN produtos : produtos[c].total_falta_estoque = 0
    /\ [][\A c \in DOMAIN produtos :
            LET falta == Evento[3] - produtos[c].saldo_atual
            IN IF VendaInsuficiente({"diaria"}) /\ Evento[4] = c
               THEN /\ falta > 0
                    /\ produtos'[c].total_falta_estoque =
                           produtos[c].total_falta_estoque + falta
               ELSE produtos'[c].total_falta_estoque =
                        produtos[c].total_falta_estoque]_vars

\* the alerts printed for product c on day d, as positions of the log
TentativasNoDia(c, d) ==
    {i \in 1..Len(alertas) : alertas[i].codigo = c /\ alertas[i].data = d}

\* the position of the k-th alert printed for product c on day d
PosicaoDaTentativa(c, d, k) ==
    CHOOSE i \in TentativasNoDia(c, d) :
        Cardinality({j \in TentativasNoDia(c, d) : j <= i}) = k

\* insufficient attempts of product c on day d, read from the ledger: the
\* sales processed for that day less the 'S' movements recorded for it
InsuficientesNoDia(c, d) ==
    LET VendaDe(e) == e[1] = "S" /\ e[4] = c /\ e[2] = d
        SaidaEm(m) == m.tipo = "S" /\ m.data = d
    IN Contar(Processados, VendaDe) - Contar(produtos[c].movimentacoes, SaidaEm)

\* C8: for every product of the shortfall-tracking variant,
\* vendas_negativas_por_dia[d] is the number of insufficient attempts on day d,
\* dia_mais_vendas_negativas is a day with the largest count,
\* qtd_vendas_negativas_no_dia is that count, and among the days tied for the
\* largest count the tracked day is the one that reached the count first.
C8_DiaComMaisVendasNegativas ==
    variante = "diaria" =>
        \A c \in DOMAIN produtos :
            LET p == produtos[c]
                N(d) == InsuficientesNoDia(c, d)
            IN /\ \A d \in Dias :
                     /\ p.vendas_negativas_por_dia[d] = N(d)
                     /\ Cardinality(TentativasNoDia(c, d)) = N(d)
               /\ IF \A d \in Dias : N(d) = 0
                  THEN /\ p.dia_mais_vendas_negativas = None
                       /\ p.qtd_vendas_negativas_no_dia = 0
                  ELSE /\ p.dia_mais_vendas_negativas \in Dias
                       /\ p.qtd_vendas_negativas_no_dia =
                              N(p.dia_mais_vendas_negativas)
                       /\ \A d \in Dias : N(d) <= p.qtd_vendas_negativas_no_dia
                       /\ \A d \in Dias \ {p.dia_mais_vendas_negativas} :
                             N(d) = p.qtd_vendas_negativas_no_dia =>
                                 PosicaoDaTentativa(c, p.dia_mais_vendas_negativas,
                                                    p.qtd_vendas_negativas_no_dia)
                                 < PosicaoDaTentativa(c, d,
                                                      p.qtd_vendas_negativas_no_dia)

\* three days with one insufficient attempt each: the first day is tracked
C8_Witness ==
    /\ variante = "diaria"
    /\ \A d \in Dias : produtos[1].vendas_negativas_por_dia[d] = 1
    /\ produtos[1].dia_mais_vendas_negativas = 1

RECURSIVE SomaFaltas(_, _, _)
\* the missing quantities (requested - balance) of the alerts printed for
\* product c on day d
SomaFaltas(log, c, d) ==
    IF log = <<>> THEN 0
    ELSE (IF Head(log).codigo = c /\ Head(log).data = d
          THEN Head(log).quantidade - Head(log).saldo ELSE 0)
         + SomaFaltas(Tail(log), c, d)

\* C9: for every product of the shortfall-tracking variant,
\* falta_no_dia_mais_vendas_negativas is the sum of the missing quantities of
\* all its insufficient attempts on the tracked day dia_mais_vendas_negativas.
C9_FaltaNoDiaRastreado ==
    variante = "diaria" =>
        \A c \in DOMAIN produtos :
            produtos[c].dia_mais_vendas_negativas # None =>
                produtos[c].falta_no_dia_mais_vendas_negativas =
                    SomaFaltas(alertas, c, produtos[c].dia_mais_vendas_negativas)

\* the quantity of the last intake event of the merged sequence dated on or
\* before day d, 0 when there is none
UltimaEntradaAte(d) ==
    LET idx == {i \in 1..Len(movimentacoes_ordenadas) :
                   /\ movimentacoes_ordenadas[i][1] = "E"
                   /\ movimentacoes_ordenadas[i][2] <= d}
    IN IF idx = {} THEN 0
       ELSE movimentacoes_ordenadas[CHOOSE i \in idx : \A j \in idx : j <= i][3]

RECURSIVE SomaLinhasAte(_, _)
\* the quantities of all intake rows dated on or before day d
SomaLinhasAte(linhas, d) ==
    IF linhas = <<>> THEN 0
    ELSE (IF Head(linhas)[1] <= d THEN Head(linhas)[2] ELSE 0)
         + SomaLinhasAte(Tail(linhas), d)

\* the day the shortfall percentage of product c is attributed to
DiaDaFalta(c) ==
    IF variante = "diaria" THEN produtos[c].dia_mais_vendas_negativas
    ELSE produtos[c].data_maior_falta_estoque

TeveFalta(c) ==
    IF variante = "diaria" THEN produtos[c].tentativa_venda_negativa
    ELSE variante = "permissiva" /\ produtos[c].maior_falta_estoque < 0

\* C11: for every product that had a shortfall, computing its percentage of
\* the lot never raises: the script never stops on an error, and when no
\* intake is dated on or before the shortfall day the finished report holds
\* the block of the product with the sentinel 0 in place of the percentage.
C11_PercentualNuncaLevanta ==
    /\ pc # "erro"
    /\ pc = "fim" =>
          \A c \in DOMAIN produtos :
              (TeveFalta(c) /\ SomaLinhasAte(arq_entradas, DiaDaFalta(c)) = 0) =>
                  /\ relatorio[c].impresso
                  /\ relatorio[c].percentual = 0

\* the sum of the configured percentages, in hundredths of a percent
TotalConfigurado == 100 * SomaDias([c \in DOMAIN produtos |-> produtos[c].percentual],
                                   DOMAIN produtos)

\* C12: calcular_percentuais_ideais returns percentages whose sum equals the
\* sum of the configured percentages within 0.01 x (number of products).
C12_SomaPreservada ==
    pc = "ideais" =>
        Abs(SomaDias(percentuais_ideais, DOMAIN produtos) - TotalConfigurado)
            <= Cardinality(DOMAIN produtos)

\* a recalibration that raised one product below the limit of 50%, lowered
\* the others, and whose rounded percentages do not add up exactly
C12_Witness ==
    /\ pc = "ideais"
    /\ \E c \in DOMAIN produtos :
          /\ MenorQue(<<0, 1>>, ajustes_necessarios[c])
          /\ MenorQue(ajustes_necessarios[c], <<1, 2>>)
          /\ percentuais_ideais[c] > 100 * produtos[c].percentual
    /\ \E c \in DOMAIN produtos :
          /\ produtos[c].percentual > 0
          /\ percentuais_ideais[c] < 100 * produtos[c].percentual
    /\ SomaDias(percentuais_ideais, DOMAIN produtos) # TotalConfigurado

\* C13: when recalibration runs after a replay, every product that had at
\* least one insufficient-stock sale attempt during that replay gets a
\* strictly positive adjustment, and every product with no such attempt, or
\* with no movements at all, gets adjustment 0.
C13_AjustePositivoSeInsuficiente ==
    pc = "ideais" =>
        \A c \in DOMAIN produtos :
            IF \E i \in 1..Len(alertas) : alertas[i].codigo = c
            THEN MenorQue(<<0, 1>>, ajustes_necessarios[c])
            ELSE ajustes_necessarios[c] = <<0, 1>>

\* frequency + severity of product c, read from its ledger as a pair
\* <<numerator, denominator>> (not reduced); <<0, 1>> without problem sale
FrequenciaMaisGravidade(c) ==
    LET movs == produtos[c].movimentacoes
        Problema(m) == m.tipo = "S" /\ m.saldo_apos < 0
        dias == Contar(movs, Problema)
        soma == -SomaDias([i \in 1..Len(movs) |->
                              IF Problema(movs[i]) THEN movs[i].saldo_apos ELSE 0],
                          1..Len(movs))
        saidas == total_saidas(produtos[c])
    IN IF dias = 0 THEN <<0, 1>>
       ELSE <<dias * saidas + soma * Len(movs), Len(movs) * saidas>>

\* C14: in recalibration the adjustment of every product is
\* min(frequency + severity, 0.5), hence within [0, 0.5]; no product's
\* recalibrated percentage exceeds 1.5 times its configured percentage (plus
\* 0.005 of rounding), and a product with adjustment 0 never ends above its
\* configured percentage (plus 0.005 of rounding).
C14_AjusteLimitado ==
    pc = "ideais" =>
        \A c \in DOMAIN produtos :
            LET aj == ajustes_necessarios[c]
                fg == FrequenciaMaisGravidade(c)
            IN /\ aj[1] >= 0 /\ aj[2] > 0 /\ 2 * aj[1] <= aj[2]
               /\ IF 2 * fg[1] <= fg[2]
                  THEN aj[1] * fg[2] = fg[1] * aj[2]
                  ELSE aj = <<1, 2>>
               /\ 2 * percentuais_ideais[c] <= 300 * produtos[c].percentual + 1
               /\ aj[1] = 0 =>
                      2 * percentuais_ideais[c] <= 200 * produtos[c].percentual + 1

\* a recalibration with one product at the limit of 50%, one below it and
\* one without adjustment that has a positive percentage
C14_Witness ==
    /\ pc = "ideais"
    /\ \E c \in DOMAIN produtos :
          /\ ajustes_necessarios[c] = <<1, 2>>
          /\ 2 * FrequenciaMaisGravidade(c)[1] > FrequenciaMaisGravidade(c)[2]
    /\ \E c \in DOMAIN produtos :
          /\ MenorQue(<<0, 1>>, ajustes_necessarios[c])
          /\ MenorQue(ajustes_necessarios[c], <<1, 2>>)
    /\ \E c \in DOMAIN produtos :
          /\ ajustes_necessarios[c] = <<0, 1>>
          /\ produtos[c].percentual > 0
          /\ percentuais_ideais[c] < 100 * produtos[c].percentual

\* the sum of ALLOC_KG over the allocation entries that pass the test
SomaAlloc(Teste(_)) ==
    SomaDias([i \in 1..Len(alloc) |->
                 IF Teste(alloc[i]) THEN alloc[i].ALLOC_KG ELSE 0],
             1..Len(alloc))

\* what was allocated from lot j (counted from 0) and to the k-th sale
AlocadoDoLote(j) ==
    LET DoLote(a) == a.ENTRY_IDX = j
    IN SomaAlloc(DoLote)

AlocadoParaSaida(k) ==
    LET DaSaida(a) == a.OUT_DATE = out_sorted[k][1] /\ a.CUT_CODE = out_sorted[k][2]
    IN SomaAlloc(DaSaida)

\* the loop has finished with the k-th sale
SaidaEncerrada(k) ==
    \/ k < out_pos
    \/ k = out_pos /\ pcf \in {"for", "alocado"}

\* the quantities of the lots, and of the first k sales
TotalLotes == SomaDias([i \in 1..Len(in_sorted) |-> in_sorted[i][2]], 1..Len(in_sorted))

TotalSaidasAte(k) == SomaDias([i \in 1..k |-> out_sorted[i][3]], 1..k)

NoLacoFIFO == pcf \in {"for", "while"}

\* a bound on the steps the loop still takes: sale rows not taken, lots not
\* used up, and the position inside the current iteration
Medida ==
    3 * (Len(out_sorted) - out_pos) + (Len(in_sorted) - entry_idx)
    + (CASE pcf = "for" -> 1
         [] pcf = "while" -> IF need > 0 /\ entry_idx < Len(in_sorted) THEN 3 ELSE 2
         [] OTHER -> 0)

Efeito(m) == IF m.tipo = "E" THEN m.quantidade ELSE -m.quantidade

\* C17: every recorded movement's saldo_apos equals the product's balance
\* immediately before the movement plus quantidade for an 'E' movement and
\* minus quantidade for an 'S' movement: along a product's history each
\* saldo_apos is the previous movement's saldo_apos (0 for the first) plus or
\* minus the quantity, and a movement is appended with the balance the
\* product had before the step plus or minus the quantity.
C17_SaldoAposEncadeado ==
    /\ [](\A c \in DOMAIN produtos :
            LET movs == produtos[c].movimentacoes
            IN \A i \in 1..Len(movs) :
                  movs[i].saldo_apos =
                      (IF i = 1 THEN 0 ELSE movs[i - 1].saldo_apos) + Efeito(movs[i]))
    /\ [][\A c \in DOMAIN produtos :
            Len(produtos'[c].movimentacoes) = Len(produtos[c].movimentacoes) + 1 =>
                Ultimo(produtos'[c].movimentacoes).saldo_apos =
                    produtos[c].saldo_atual + Efeito(Ultimo(produtos'[c].movimentacoes))]_vars

\* a permissive history of four movements that went below zero and was
\* brought back by a later intake
C17_Witness ==
    /\ variante = "permissiva"
    /\ \E c \in DOMAIN produtos :
          LET movs == produtos[c].movimentacoes
          IN /\ Len(movs) = 4
             /\ movs[1].tipo = "E"
             /\ movs[3].tipo = "S" /\ movs[3].saldo_apos < 0
             /\ movs[4].tipo = "E" /\ movs[4].saldo_apos > 0

\* the sum of the configured percentages
TotalPercentual ==
    SomaDias([c \in DOMAIN produtos |-> produtos[c].percentual], DOMAIN produtos)

\* the sum of the quantities of the intake events already processed
EntradasProcessadas ==
    SomaDias([i \in 1..pos - 1 |->
                 IF movimentacoes_ordenadas[i][1] = "E"
                 THEN movimentacoes_ordenadas[i][3] ELSE 0],
             1..pos - 1)

DoDia(s, tipo, d) ==
    LET Teste(e) == e[1] = tipo /\ e[2] = d
    IN SelectSeq(s, Teste)

\* the event tuples of the two files, in file order (sale rows of products
\* that are not configured left out)
EntradasLidas == [i \in 1..Len(arq_entradas) |->
                     <<"E", arq_entradas[i][1], arq_entradas[i][2], None>>]

VendasLidas ==
    LET Configurada(l) == l[2] \in DOMAIN produtos
        linhas == SelectSeq(arq_vendas, Configurada)
    IN [i \in 1..Len(linhas) |-> <<"S", linhas[i][1], linhas[i][3], linhas[i][2]>>]

\* C19: events with the same timestamp stand in the merged sequence in their
\* order in the concatenation of the intake list and the sale list, whatever
\* their kind: on every day the intakes come before the sales, the intakes
\* are in load order and so are the sales; the replay takes the events in
\* the order of the sequence, so in every ledger an intake of a day is
\* recorded before every sale of that day.
C19_EmpateMantemOrdem ==
    /\ [](pc # "carregar" =>
            /\ \A i, j \in 1..Len(movimentacoes_ordenadas) :
                  (/\ i < j
                   /\ movimentacoes_ordenadas[i][2] = movimentacoes_ordenadas[j][2])
                      => ~(/\ movimentacoes_ordenadas[i][1] = "S"
                           /\ movimentacoes_ordenadas[j][1] = "E")
            /\ \A d \in Dias :
                  /\ DoDia(movimentacoes_ordenadas, "E", d) = DoDia(EntradasLidas, "E", d)
                  /\ DoDia(movimentacoes_ordenadas, "S", d) = DoDia(VendasLidas, "S", d))
    /\ [][pos' # pos => (NoLaco /\ pos' = pos + 1)]_vars
    /\ [](\A c \in DOMAIN produtos :
            LET movs == produtos[c].movimentacoes
            IN \A i, j \in 1..Len(movs) :
                  (i < j /\ movs[i].data = movs[j].data)
                      => ~(movs[i].tipo = "S" /\ movs[j].tipo = "E"))

\* two intakes and two sales, all of day 2, neither file in order of
\* quantity: the merged sequence is the intake file followed by the sale file
C19_Witness ==
    /\ pc = "processar"
    /\ arq_entradas = <<<<2, 200>>, <<2, 100>>>>
    /\ Len(arq_vendas) = 2
    /\ arq_vendas[1][1] = 2 /\ arq_vendas[2][1] = 2
    /\ arq_vendas[1][3] > arq_vendas[2][3]
    /\ movimentacoes_ordenadas = EntradasLidas \o VendasLidas

\* the 'S' movements recorded in all ledgers
SaidasRegistradas ==
    LET EhS(m) == m.tipo = "S"
    IN SomaDias([c \in DOMAIN produtos |-> Contar(produtos[c].movimentacoes, EhS)],
                DOMAIN produtos)

\* the sale events the loop has processed
VendasProcessadas ==
    LET Venda(e) == e[1] = "S"
    IN Contar(Processados, Venda)

\* C20: a sale whose product code is not among the configured products is
\* dropped at load: the sale events of the merged sequence are those of the
\* rows with a configured code, so every event of the sequence names a
\* product the replay can look up; no ledger holds more 'S' movements and no
\* more alerts are printed than sales of configured products were processed,
\* and the alert flag is set only with an alert for a configured product.
C20_VendaNaoConfiguradaDescartada ==
    pc # "carregar" =>
        /\ \A i \in 1..Len(movimentacoes_ordenadas) :
              movimentacoes_ordenadas[i][1] = "S" =>
                  movimentacoes_ordenadas[i][4] \in DOMAIN produtos
        /\ \A d \in Dias :
              DoDia(movimentacoes_ordenadas, "S", d) = DoDia(VendasLidas, "S", d)
        /\ Len(movimentacoes_ordenadas) = Len(arq_entradas) + Len(VendasLidas)
        /\ SaidasRegistradas <= VendasProcessadas
        /\ Len(alertas) <= VendasProcessadas
        /\ \A i \in 1..Len(alertas) : alertas[i].codigo \in DOMAIN produtos
        /\ tem_alertas_estoque => alertas # <<>>

\* a finished run whose sale file holds a row of product 9, which is not
\* configured, before a sale that was served: one sale was processed, no
\* alert was raised
C20_Witness ==
    /\ pc = "fim"
    /\ Len(arq_vendas) = 2
    /\ arq_vendas[1][2] \notin DOMAIN produtos
    /\ arq_vendas[2][2] \in DOMAIN produtos
    /\ VendasProcessadas = 1
    /\ SaidasRegistradas = 1
    /\ ~tem_alertas_estoque

\* C21: the reported shortfall percentage p is the exact value
\* (missing / intake quantity x 100) rounded up to two decimals:
\* exact <= p < exact + 0.01. Stated in hundredths of a percent on whole
\* numbers: with missing = -maior_falta_estoque and the intake quantity the
\* report used, 10000 * missing <= p * intake < 10000 * missing + intake.
C21_PercentualArredondadoParaCima ==
    \A c \in DOMAIN produtos :
        relatorio[c].impresso =>
            LET exato == 10000 * (-produtos[c].maior_falta_estoque)
                p == relatorio[c].percentual
                e == relatorio[c].entrada
            IN /\ exato <= p * e
               /\ p * e < exato + e

\* fresh ledgers with the configured percentages
LedgersNovos == [c \in DOMAIN produtos |-> Produto(c, produtos[c].percentual)]

Cenario ==
    /\ produtos[1].percentual = 60
    /\ produtos[2].percentual = 40
    /\ arq_entradas = <<<<1, 100>>>>
    /\ arq_vendas = <<<<2, 1, 70>>>>
    /\ pc # "carregar"
    /\ pos > Len(movimentacoes_ordenadas)

\* what the sale was short of, as each script states it
Faltante ==
    CASE variante = "permissiva" -> -produtos[1].maior_falta_estoque
      [] variante = "estrita" -> alertas[1].quantidade - alertas[1].saldo
      [] variante = "diaria" -> produtos[1].falta_no_dia_mais_vendas_negativas

\* C23: with percentages {1: 60, 2: 40}, one intake of 100 on day 1 and a
\* sale of 70 of product 1 on day 2, the sale is flagged as a shortfall with
\* missing = 10 and the alert flag is set; the balance of product 1 ends at
\* 60 under the strict policy (sale blocked, no 'S' movement) and at -10
\* under the permissive policy, and the balance of product 2 is 40 in both.
C23_CenarioVendaInsuficiente ==
    Cenario =>
        /\ tem_alertas_estoque
        /\ Len(alertas) = 1
        /\ alertas[1].codigo = 1 /\ alertas[1].data = 2 /\ alertas[1].quantidade = 70
        /\ Faltante = 10
        /\ produtos[2].saldo_atual = 40
        /\ IF variante = "permissiva"
           THEN /\ produtos[1].saldo_atual = -10
                /\ Len(produtos[1].movimentacoes) = 2
                /\ Ultimo(produtos[1].movimentacoes) = Movimentacao(2, "S", 70, -10)
           ELSE /\ produtos[1].saldo_atual = 60
                /\ \A i \in 1..Len(produtos[1].movimentacoes) :
                      produtos[1].movimentacoes[i].tipo # "S"

\* the scenario replayed to the end by the script that blocks the sale
C23_Witness ==
    /\ Cenario
    /\ variante = "estrita"
    /\ pc = "fim"

\* the scenario replayed to the end by the script that applies the sale
C23_WitnessPermissiva ==
    /\ Cenario
    /\ variante = "permissiva"
    /\ pc = "fim"

\* the scenario: two lots of 50, of day 1 and day 3, and one sale of 90 on
\* day 4, allocated
CenarioFIFO ==
    /\ in_sorted = <<<<1, 50>>, <<3, 50>>>>
    /\ Len(out_sorted) = 1
    /\ out_sorted[1][1] = 4
    /\ out_sorted[1][3] = 90
    /\ pcf \in {"alocado", "sumario"}

\* C24: with two lots (day 1 quantity 50, day 3 quantity 50) and one sale of
\* 90 on day 4, the allocation is exactly two entries, 50 from lot 0 then 40
\* from lot 1, and the summary gives 100% for lot 0 and 80% for lot 1.
C24_CenarioFIFO ==
    CenarioFIFO =>
        /\ alloc = <<[ENTRY_IDX |-> 0, ENTRY_DATE |-> 1, ENTRY_QTY |-> 50,
                      OUT_DATE |-> 4, CUT_CODE |-> out_sorted[1][2], ALLOC_KG |-> 50],
                     [ENTRY_IDX |-> 1, ENTRY_DATE |-> 3, ENTRY_QTY |-> 50,
                      OUT_DATE |-> 4, CUT_CODE |-> out_sorted[1][2], ALLOC_KG |-> 40]>>
        /\ pcf = "sumario" =>
              /\ Len(summary) = 2
              /\ summary[1].ENTRY_IDX = 0 /\ summary[1].ALLOC_KG = 50
              /\ summary[1].PERCENT = float_div(100, 1)
              /\ summary[2].ENTRY_IDX = 1 /\ summary[2].ALLOC_KG = 40
              /\ summary[2].PERCENT = float_div(80, 1)

\* the scenario with its summary computed
C24_Witness ==
    /\ CenarioFIFO
    /\ pcf = "sumario"
    /\ Len(summary) = 2

\* C25: each product's movement history is append-only and chronological:
\* a step leaves the history as it is or appends one movement to it, never
\* modifies or removes an earlier movement, and the dates along every
\* product's history are non-decreasing.
C25_HistoricoSoCresce ==
    /\ [][\A c \in DOMAIN produtos :
            LET antes == produtos[c].movimentacoes
                depois == produtos'[c].movimentacoes
            IN /\ Len(depois) \in {Len(antes), Len(antes) + 1}
               /\ SubSeq(depois, 1, Len(antes)) = antes]_vars
    /\ [](\A c \in DOMAIN produtos :
            LET movs == produtos[c].movimentacoes
            IN \A i \in 1..Len(movs) - 1 : movs[i].data <= movs[i + 1].data)

\* a history of four movements over more than one day, with a sale between
\* two intakes, built from files that were not in date order
C25_Witness ==
    /\ Len(arq_entradas) = 2
    /\ arq_entradas[1][1] > arq_entradas[2][1]
    /\ \E c \in DOMAIN produtos :
          LET movs == produtos[c].movimentacoes
          IN /\ Len(movs) = 4
             /\ movs[1].data < movs[4].data
             /\ \E i \in 2..3 : movs[i].tipo = "S" /\ movs[i + 1].tipo = "E"

\* the balance a ledger last recorded: 0 before the first movement
SaldoRegistrado(c) ==
    IF produtos[c].movimentacoes = <<>> THEN 0
    ELSE Ultimo(produtos[c].movimentacoes).saldo_apos

\* C26: under the strict policy, with non-negative percentages and positive
\* event quantities, every product's saldo_atual is >= 0 in every reachable
\* state of the replay; a blocked sale leaves the balance at its previous
\* value, so that the balance is always the one the last recorded movement
\* left (0 when no movement was recorded).
C26_SaldoEstritoNaoNegativo ==
    (/\ variante \in Estritas
     /\ \A c \in DOMAIN produtos : produtos[c].percentual >= 0
     /\ \A i \in 1..Len(movimentacoes_ordenadas) : movimentacoes_ordenadas[i][3] > 0)
        => \A c \in DOMAIN produtos :
               /\ produtos[c].saldo_atual >= 0
               /\ produtos[c].saldo_atual = SaldoRegistrado(c)

\* the backup script at the end of a replay in which a sale was blocked while
\* the product held stock, and the stock is still there
C26_Witness ==
    /\ variante = "estrita"
    /\ FimDoLaco
    /\ \E i \in 1..Len(alertas) :
          /\ alertas[i].saldo > 0
          /\ produtos[alertas[i].codigo].saldo_atual = alertas[i].saldo
          /\ Ultimo(Processados)[1] = "S"
          /\ Ultimo(Processados)[4] = alertas[i].codigo

\* the position in out_sorted of the sale an allocation entry belongs to
SaidaDe(a) ==
    CHOOSE k \in 1..Len(out_sorted) :
        out_sorted[k][1] = a.OUT_DATE /\ out_sorted[k][2] = a.CUT_CODE

\* what the first n entries allocated from lot j, and to the k-th sale
DoLoteAte(n, j) ==
    SomaDias([i \in 1..n |-> IF alloc[i].ENTRY_IDX = j THEN alloc[i].ALLOC_KG ELSE 0],
             1..n)

ParaSaidaAte(n, k) ==
    SomaDias([i \in 1..n |-> IF SaidaDe(alloc[i]) = k THEN alloc[i].ALLOC_KG ELSE 0],
             1..n)

C28_SemLotesNaoFalha ==
    in_sorted = <<>> =>
        /\ pcf # "erro"
        /\ alloc = <<>>

Minimo(S) == CHOOSE x \in S : \A y \in S : x <= y

\* the flagged sales of product c, as positions in the printed alerts; an
\* alert carries the date of the sale and the balance after it
Sinalizadas(c) == {i \in 1..Len(alertas) : alertas[i].codigo = c}

\* C29: in the permissive variant, for every product and in every reachable
\* state, maior_falta_estoque is <= 0 and equals the minimum of 0 and the
\* post-sale balances of the product's flagged sales;
\* data_maior_falta_estoque is the date of the sale that first reached that
\* minimum and is set whenever maior_falta_estoque < 0, which is the case
\* exactly for the products that had at least one flagged sale.
C29_MaiorFaltaEhMinimo ==
    variante = "permissiva" =>
        \A c \in DOMAIN produtos :
            LET p == produtos[c]
                minimo == Minimo({0} \cup {alertas[i].saldo : i \in Sinalizadas(c)})
            IN /\ p.maior_falta_estoque <= 0
               /\ p.maior_falta_estoque = minimo
               /\ p.maior_falta_estoque < 0 <=> Sinalizadas(c) # {}
               /\ IF p.maior_falta_estoque < 0
                  THEN /\ p.data_maior_falta_estoque # None
                       /\ p.data_maior_falta_estoque =
                              alertas[Minimo({i \in Sinalizadas(c) :
                                                 alertas[i].saldo = minimo})].data
                  ELSE p.data_maior_falta_estoque = None

\* two flagged sales of one product, on different days, that left the same
\* balance below zero: the date kept is that of the first
C29_Witness ==
    /\ variante = "permissiva"
    /\ \E c \in DOMAIN produtos :
          \E i, j \in Sinalizadas(c) :
              /\ i < j
              /\ alertas[i].saldo = alertas[j].saldo
              /\ alertas[i].data < alertas[j].data
              /\ produtos[c].maior_falta_estoque = alertas[i].saldo
              /\ produtos[c].data_maior_falta_estoque = alertas[i].data

\* the shortfall statistics of a product, of the three variants
Estatisticas(p) ==
    <<p.maior_falta_estoque, p.data_maior_falta_estoque,
      p.tentativa_venda_negativa, p.total_falta_estoque,
      p.vendas_negativas_por_dia, p.dia_mais_vendas_negativas,
      p.qtd_vendas_negativas_no_dia, p.falta_no_dia_mais_vendas_negativas>>

\* C30: processing a sale event of product C changes only C's balance,
\* movement history and shortfall statistics, and possibly raises the alert
\* flag: every other product is left as it was; processing an intake event
\* never changes the alert flag or any product's shortfall statistics.
C30_EfeitoLocal ==
    [][/\ (NoLaco /\ Evento[1] = "S") =>
            /\ \A c \in DOMAIN produtos \ {Evento[4]} : produtos'[c] = produtos[c]
            /\ produtos'[Evento[4]].codigo = produtos[Evento[4]].codigo
            /\ produtos'[Evento[4]].percentual = produtos[Evento[4]].percentual
            /\ tem_alertas_estoque => tem_alertas_estoque'
       /\ (NoLaco /\ Evento[1] = "E") =>
            /\ tem_alertas_estoque' = tem_alertas_estoque
            /\ alertas' = alertas
            /\ \A c \in DOMAIN produtos :
                  Estatisticas(produtos'[c]) = Estatisticas(produtos[c])]_vars

\* an intake processed after a flagged sale: the flag is still set, the
\* product sold keeps its statistics and another product has none
C30_Witness ==
    /\ pos = 4
    /\ Processados[1][1] = "E" /\ Processados[2][1] = "S" /\ Processados[3][1] = "E"
    /\ tem_alertas_estoque
    /\ Len(alertas) = 1
    /\ \E c \in DOMAIN produtos \ {Processados[2][4]} :
          /\ Len(produtos[c].movimentacoes) = 2
          /\ Estatisticas(produtos[c]) = Estatisticas(Produto(c, produtos[c].percentual))
    /\ Estatisticas(produtos[Processados[2][4]])
           # Estatisticas(Produto(Processados[2][4], 0))

-----------------------------------------------------------------------------
\* the ledgers a run of processar_movimentacoes would leave had the loop
\* met the processed events in the order f, a permutation of their positions
Reordenados(f) == [i \in 1 .. Len(Processados) |-> Processados[f[i]]]

LedgersNovosFloat ==
    [c \in DOMAIN produtos |-> ProdutoFloat(c, produtos[c].percentual)]

\* on the whole-number lots of Spec, where the sums are exact, the permissive
\* balances are those of every other order of the processed events
SaldoInteiroNaoDependeDaOrdem ==
    (FimDoLaco /\ variante = "permissiva") =>
        \A f \in Permutations(1 .. Len(Processados)) :
            \A c \in DOMAIN produtos :
                processar_movimentacoes(variante, LedgersNovos, FALSE,
                                        Reordenados(f)).produtos[c].saldo_atual
                = produtos[c].saldo_atual

\* a finished run of the strict script that another order of the same events
\* would have ended with a different balance
EstritaDependeDaOrdem ==
    /\ FimDoLaco
    /\ variante = "estrita"
    /\ \E f \in Permutations(1 .. Len(Processados)) :
          \E c \in DOMAIN produtos :
              processar_movimentacoes(variante, LedgersNovos, FALSE,
                                      Reordenados(f)).produtos[c].saldo_atual
              # produtos[c].saldo_atual

\* C31: under the permissive policy the final balance of every product
\* depends only on the multiset of events: once the loop has ended, replaying
\* any permutation of the same intakes and sales from fresh ledgers ends with
\* the saldo_atual this run ended with. (That the strict policy can end with
\* different balances for two orders of the same events is a possibility,
\* the state EstritaDependeDaOrdem.)
C31_SaldoNaoDependeDaOrdem ==
    FimDoLaco =>
        \A f \in Permutations(1 .. Len(Processados)) :
            LET outra == processar_movimentacoes_float(LedgersNovosFloat, FALSE,
                                                       Reordenados(f))
            IN \A c \in DOMAIN produtos :
                  outra.produtos[c].saldo_atual = produtos[c].saldo_atual

====
